---- MODULE Spec2Model ----
(***************************************************************************)
(* Model of the behavioural simulation engine of web_automation_demo.py:   *)
(* the session object AdvancedWebAutomation (driver handle, navigate,      *)
(* interact, cleanup), the element selector _select_elements_by_behavior   *)
(* and the page analyser PageAnalyzer.find_interactive_elements.           *)
(*                                                                         *)
(* Scores are the source's floats scaled by 100 (0.6 is 60).               *)
(* A scored entry is <<handle, score>>; the source's e[0] is entry[1] and  *)
(* the source's e[1] is entry[2].                                          *)
(***************************************************************************)
EXTENDS Integers, Sequences, FiniteSets, TLC

VARIABLES
    \* ---- the session (AdvancedWebAutomation) ----
    pattern,        \* self.behavior.pattern
    monitoring,     \* self.enable_monitoring
    driver,         \* the Browser Driver handle behind self.driver: "live" or "quit"
    pc,             \* position of the single session thread: "ready" or "loop"
    maxInt,         \* max_interactions of the running interact_intelligently call
    scored,         \* scored_elements of the running call
    selected,       \* selected of the running call
    idx,            \* position of the for loop over selected (1-based)
    attempted,      \* handles on which _interact_with_element was started, in order
    failedAt,       \* loop positions whose interaction hit a driver failure
    lastOp,         \* the last operation that returned or raised: [name, onClosed]
    lastResult,     \* "none", "ok", or the error raised to the caller
    cleanupCalls,   \* completed cleanup() calls
    quitCalls,      \* quit commands issued to the driver handle
    telemetry,      \* session records emitted by cleanup()
    deadCmds,       \* commands navigate/interact sent to the handle after quit
    metrics,        \* keys of self.performance_metrics
    \* ---- one call of _select_elements_by_behavior ----
    selPattern, selScored, selMax, selOut,
    \* ---- one call of find_interactive_elements ----
    page,           \* the page: node -> [matches, behaviour]
    findPc,         \* "pending", "done" or "raised"
    elements,       \* the list `elements`: handles, each [obj, node]
    seen,           \* the set `seen`
    unique,         \* the list unique_elements
    checked,        \* the _is_element_interactive calls made: [handle, met, result]
    detached,       \* nodes found detached so far
    \* ---- find, score, select on one page (interact_intelligently 818-830) ----
    pPage,          \* the page: the name of each of its nodes, in document order
    pPattern,       \* self.behavior.pattern
    pCur,           \* self.behavior.curiosity_level, in hundredths
    pMax,           \* max_interactions
    pPc,            \* "find", "score", "select", "done" or "raised"
    pFound,         \* elements returned by find_interactive_elements
    pRnd,           \* the random term drawn for each found element, in hundredths
    pStale,         \* positions in pFound whose scoring raised
    pScored,        \* scored_elements: <<position in pFound, score>>
    pSelected,      \* selected
    \* ---- monitored actions and the commands of a navigation (680-721) ----
    mMonitoring,    \* self.enable_monitoring
    mHeadless,      \* self.headless
    mMetrics,       \* self.performance_metrics: entries <<action name, metric>>
    mClock,         \* calls made so far; the metric of a call is its number
    mDone,          \* the actions that completed, in order
    mCall,          \* the last call and how it ended
    mLog,           \* the driver commands of the last call
    \* ---- Initializing (580-669) ----
    suProfile,      \* self.profile
    suDriver,       \* the browser process: "none" or "live"
    suWindow,       \* the window size in effect, <<>> without a browser
    suPc,           \* "new", "ready" or "failed"
    \* ---- _type_like_human (1039-1066) ----
    tyText,         \* text
    tyField,        \* the content of the field
    tyLog,          \* the commands sent to the element
    tyPc,           \* "new", "returned" or "raised"
    \* ---- MouseMovement.bezier_curve (140-176) ----
    bzStart,        \* start
    bzEnd,          \* end
    bzControl,      \* control_points, <<>> for None
    bzN,            \* num_points
    bzPath,         \* the points returned
    bzPc,           \* "new" or "returned"
    \* ---- _interact_with_element (932-1000) ----
    itScore,        \* score, in hundredths
    itCur,          \* self.behavior.curiosity_level, in hundredths
    itTag,          \* element.tag_name
    itDraws,        \* the random draws of the call and what the page does
    itFail,         \* the command that raises, "none" if none does
    itLog,          \* the commands sent to the driver
    itPc,            \* "new" or "returned"
    \* ---- _handle_input (1002-1018) ----
    gtType,         \* the type attribute of the element, "None" if it has none
    gtPlaceholder,  \* its placeholder attribute, NoneValue if it has none
    gtName,         \* its name attribute
    gtId,           \* its id attribute
    gtText,         \* the text handed to _type_like_human, <<>> if none is
    gtPc,            \* "new" or "returned"
    \* ---- _simulate_page_scanning (755-811) ----
    scPattern,      \* self.behavior.pattern
    scSpeed,        \* self.behavior.reading_speed, words per minute
    scWords,        \* word_count
    scHeight,       \* document.body.scrollHeight of the page, page_height once read
    scViewport,     \* window.innerHeight, viewport_height once read
    scScrolls,      \* scrolls, the draw of _normal_scroll
    scPos,          \* current_position
    scTime,         \* time.time() - start_time, in seconds
    scSent,         \* the scrollBy commands sent so far
    scPc,            \* "new", "loop", "returned" or "raised"
    \* ---- run_advanced_automation (1129-1219) ----
    rnPattern,      \* selected_pattern
    rnProfile,      \* profile
    rnAutomation,   \* the local automation: "None" or "session"
    rnDriver,       \* the browser process: "none", "live" or "quit"
    rnError,        \* what raised inside the try block, "none" if nothing did
    rnPc            \* "new", "navigate", "interact", "report", "finally" or "ended"

sessVars == <<pattern, monitoring, driver, pc, maxInt, scored, selected, idx,
              attempted, failedAt, lastOp, lastResult, cleanupCalls, quitCalls,
              telemetry, deadCmds, metrics>>
selVars == <<selPattern, selScored, selMax, selOut>>
findVars == <<page, findPc, elements, seen, unique, checked, detached>>
pipeVars == <<pPage, pPattern, pCur, pMax, pPc, pFound, pRnd, pStale, pScored,
             pSelected>>
monVars == <<mMonitoring, mHeadless, mMetrics, mClock, mDone, mCall, mLog>>
setupVars == <<suProfile, suDriver, suWindow, suPc>>
typeVars == <<tyText, tyField, tyLog, tyPc>>
bezierVars == <<bzStart, bzEnd, bzControl, bzN, bzPath, bzPc>>
interactVars == <<itScore, itCur, itTag, itDraws, itFail, itLog, itPc>>
textVars == <<gtType, gtPlaceholder, gtName, gtId, gtText, gtPc>>
scrollVars == <<scPattern, scSpeed, scWords, scHeight, scViewport, scScrolls, scPos, scTime, scSent, scPc>>
runVars == <<rnPattern, rnProfile, rnAutomation, rnDriver, rnError, rnPc>>
vars == <<sessVars, selVars, findVars, pipeVars, monVars, setupVars, typeVars,
          bezierVars, interactVars, textVars, scrollVars, runVars>>

\* the parts each specification leaves alone
notSess == <<selVars, findVars, pipeVars, monVars, setupVars, typeVars,
             bezierVars, interactVars, textVars, scrollVars, runVars>>
notSel == <<sessVars, findVars, pipeVars, monVars, setupVars, typeVars,
            bezierVars, interactVars, textVars, scrollVars, runVars>>
notFind == <<sessVars, selVars, pipeVars, monVars, setupVars, typeVars,
             bezierVars, interactVars, textVars, scrollVars, runVars>>
notPipe == <<sessVars, selVars, findVars, monVars, setupVars, typeVars,
             bezierVars, interactVars, textVars, scrollVars, runVars>>
notMon == <<sessVars, selVars, findVars, pipeVars, setupVars, typeVars,
            bezierVars, interactVars, textVars, scrollVars, runVars>>
notSetup == <<sessVars, selVars, findVars, pipeVars, monVars, typeVars,
              bezierVars, interactVars, textVars, scrollVars, runVars>>
notType == <<sessVars, selVars, findVars, pipeVars, monVars, setupVars,
             bezierVars, interactVars, textVars, scrollVars, runVars>>
notBezier == <<sessVars, selVars, findVars, pipeVars, monVars, setupVars,
               typeVars, interactVars, textVars, scrollVars, runVars>>
notInteract == <<sessVars, selVars, findVars, pipeVars, monVars, setupVars,
                 typeVars, bezierVars, textVars, scrollVars, runVars>>
notText == <<sessVars, selVars, findVars, pipeVars, monVars, setupVars,
             typeVars, bezierVars, interactVars, scrollVars, runVars>>
notScroll == <<sessVars, selVars, findVars, pipeVars, monVars, setupVars,
               typeVars, bezierVars, interactVars, textVars, runVars>>
notRun == <<sessVars, selVars, findVars, pipeVars, monVars, setupVars, typeVars,
            bezierVars, interactVars, textVars, scrollVars>>

----------------------------------------------------------------------------
\* Bounds of the model
MaxElems == 3
MaxCount == 3
MaxCleanups == 2
MaxLen == 4
MaxSelCount == 4
MaxDeadCmds == 2
NumNodes == 2
NumPageElems == 2
MaxCalls == 3
MaxScrolls == 2
MaxTextLen == 6
MaxPoints == 4
MaxPath == 2
MaxPageHeight == 4000
MaxWords == 30

\* Program constants
FocusedThreshold == 60
ScannerCap == 3
NumSelectors == 17

Patterns == {"casual", "focused", "explorer", "scanner", "researcher"}
ScoreValues == {0, 60, 61}

----------------------------------------------------------------------------
\* Helpers

Min(a, b) == IF a <= b THEN a ELSE b

Range(s) == {s[i] : i \in DOMAIN s}

\* Python's s[:k] for k >= 0
Take(s, k) == SubSeq(s, 1, Min(k, Len(s)))

\* Python's s[k:] for k >= 0
Drop(s, k) == SubSeq(s, Min(k, Len(s)) + 1, Len(s))

\* All ways to draw k positions of s without replacement, in draw order
Arrangements(S, k) ==
    {a \in [1..k -> S] : \A i, j \in 1..k : i # j => a[i] # a[j]}

RECURSIVE SumScores(_)
SumScores(s) == IF s = <<>> THEN 0 ELSE Head(s)[2] + SumScores(Tail(s))

\* the mutant of InsertDesc: e goes before the entries of equal score
RECURSIVE InsertDescBeforeEqual(_, _)
InsertDescBeforeEqual(s, e) ==
    IF s = <<>> THEN <<e>>
    ELSE IF Head(s)[2] > e[2] THEN <<Head(s)>> \o InsertDescBeforeEqual(Tail(s), e)
    ELSE <<e>> \o s

\* stable insertion of e into a list sorted by non-increasing score
RECURSIVE InsertDesc(_, _)
InsertDesc(s, e) ==
    IF s = <<>> THEN <<e>>
    ELSE IF Head(s)[2] >= e[2] THEN <<Head(s)>> \o InsertDesc(Tail(s), e)
    ELSE <<e>> \o s

\* scored.sort(key=lambda x: x[1], reverse=True): stable, descending
RECURSIVE SortDesc(_)
SortDesc(s) ==
    IF s = <<>> THEN <<>>
    ELSE InsertDesc(SortDesc(SubSeq(s, 1, Len(s) - 1)), s[Len(s)])

----------------------------------------------------------------------------
\* _select_elements_by_behavior (lines 893-930).  Each branch gives the set of
\* outcomes the random source allows: a returned list, or an exception.

Returned(sel) == [status |-> "returned", sel |-> sel]

Raised == [status |-> "raised", sel |-> <<>>]

\* [e for e in scored_elements if e[1] > 0.6]
RECURSIVE HighScoring(_)
HighScoring(s) ==
    IF s = <<>> THEN <<>>
    ELSE (IF Head(s)[2] > FocusedThreshold THEN <<Head(s)>> ELSE <<>>)
         \o HighScoring(Tail(s))

\* the entries of s at the drawn positions a[1], ..., a[k]
Pick(s, a, k) == [i \in 1..k |-> s[a[i]]]

\* random.sample(s, k): k positions drawn without replacement
RandomSample(s, k) == {Pick(s, a, k) : a \in Arrangements(DOMAIN s, k)}

\* the mutant of SelectFocused: the threshold test is >= instead of >
RECURSIVE AtLeastThreshold(_)
AtLeastThreshold(s) ==
    IF s = <<>> THEN <<>>
    ELSE (IF Head(s)[2] >= FocusedThreshold THEN <<Head(s)>> ELSE <<>>)
         \o AtLeastThreshold(Tail(s))

SelectFocusedInclusive(s, m) == {Returned(Take(AtLeastThreshold(s), m))}

SelectFocused(s, m) == {Returned(Take(HighScoring(s), m))}

\* the mutant of SelectExplorer: the random picks are drawn from the whole list
SelectExplorerFromAll(s, m) ==
    LET h == m \div 2
        high_score == Take(s, h)
        rest == Drop(s, h)
    IN  {Returned(high_score \o picks) : picks \in RandomSample(s, Min(h, Len(rest)))}

SelectExplorer(s, m) ==
    LET h == m \div 2
        high_score == Take(s, h)
        rest == Drop(s, h)
    IN  {Returned(high_score \o picks) : picks \in RandomSample(rest, Min(h, Len(rest)))}

\* the mutant of SelectScanner: the slice ignores max_count
SelectScannerTopThree(s, m) == {Returned(Take(s, ScannerCap))}

SelectScanner(s, m) == {Returned(Take(s, Min(ScannerCap, m)))}

\* np.random.choice(n, size=k, replace=False, p=probabilities): raises ValueError
\* when fewer than k probabilities are non-zero, else draws k distinct positions
\* of non-zero probability
WeightedChoice(s, k) ==
    LET nonzero == {i \in DOMAIN s : s[i][2] > 0}
    IN  IF Cardinality(nonzero) < k THEN {Raised}
        ELSE {Returned(Pick(s, a, k)) : a \in Arrangements(nonzero, k)}

\* the mutant of SelectDefault: the short-list test is inverted
SelectDefaultAll(s, m) ==
    IF Len(s) >= m THEN {Returned(s)}
    ELSE IF SumScores(s) = 0
         THEN {Returned(picks) : picks \in RandomSample(s, Min(m, Len(s)))}
         ELSE WeightedChoice(s, Min(m, Len(s)))

SelectDefault(s, m) ==
    IF Len(s) <= m THEN {Returned(s)}
    ELSE IF SumScores(s) = 0
         THEN {Returned(picks) : picks \in RandomSample(s, Min(m, Len(s)))}
         ELSE WeightedChoice(s, Min(m, Len(s)))

select_elements_by_behavior(p, s, m) ==
    CASE p = "focused" -> SelectFocused(s, m)
      [] p = "explorer" -> SelectExplorer(s, m)
      [] p = "scanner" -> SelectScanner(s, m)
      [] OTHER -> SelectDefault(s, m)

----------------------------------------------------------------------------
\* The session: AdvancedWebAutomation

\* _score_elements (840-891): the elements whose scoring did not fail, in
\* discovery order, each with its score, then sorted
\* the mutant of ScoredInOrder: the first element whose reads raise ends the loop
ScoredUntilFailure(n, ok, sc) ==
    LET first == IF \E k \in 1..n : k \notin ok
                 THEN CHOOSE k \in 1..n : k \notin ok /\ \A j \in 1..(k - 1) : j \in ok
                 ELSE n + 1
    IN  [k \in 1..(first - 1) |-> <<k, sc[k]>>]

RECURSIVE ScoredInOrder(_, _, _)
ScoredInOrder(n, ok, sc) ==
    IF n = 0 THEN <<>>
    ELSE ScoredInOrder(n - 1, ok, sc) \o (IF n \in ok THEN <<<<n, sc[n]>>>> ELSE <<>>)

score_elements(n, ok, sc) == SortDesc(ScoredInOrder(n, ok, sc))

\* driver calls of one element interaction that can fail
Failures == {"none", "scroll", "geometry", "move", "click", "typing", "post_click"}

\* _interact_with_element (932-1000): the whole body is inside
\* try ... except Exception, so the caller sees a normal return
interact_with_element(fail) == "returned"

\* the mutant of LoopNext: the loop leaves after its first element
LoopNextLeavesEarly(i, n, out) == [idx |-> n + 1, escaped |-> FALSE]

\* the for loop of interact_intelligently (833-838): try / except Exception /
\* continue; position after element i of n, and whether an exception escapes
LoopNext(i, n, out) == [idx |-> i + 1, escaped |-> FALSE]

\* `if self.driver:` (1117): the attribute is truthy once a handle was stored
DriverTruthy(d) == d # "none"

Op(name) == [name |-> name, onClosed |-> driver = "quit"]

NoCall ==
    /\ maxInt' = 0
    /\ scored' = <<>>
    /\ selected' = <<>>
    /\ idx' = 0
    /\ attempted' = <<>>
    /\ failedAt' = {}

SessInit ==
    /\ pattern \in Patterns
    /\ monitoring \in BOOLEAN
    /\ driver = "live"
    /\ pc = "ready"
    /\ maxInt = 0
    /\ scored = <<>>
    /\ selected = <<>>
    /\ idx = 0
    /\ attempted = <<>>
    /\ failedAt = {}
    /\ lastOp = [name |-> "init", onClosed |-> FALSE]
    /\ lastResult = "none"
    /\ cleanupCalls = 0
    /\ quitCalls = 0
    /\ telemetry = 0
    /\ deadCmds = 0
    /\ metrics = {}

\* navigate_with_intelligence (700-721), on a live handle
NavigateLive ==
    /\ pc = "ready"
    /\ driver = "live"
    /\ \E out \in {"ok", "monitor_failed", "load_failed", "wait_timeout",
                   "analysis_failed", "scroll_failed"} :
        /\ out = "monitor_failed" => monitoring
        /\ lastResult' = (CASE out = "ok" -> "ok"
                            [] out = "wait_timeout" -> "timeout_error"
                            [] OTHER -> "driver_error")
        /\ metrics' = IF out = "ok" /\ monitoring
                      THEN metrics \cup {"navigate_to_url"} ELSE metrics
    /\ lastOp' = Op("navigate")
    /\ UNCHANGED <<pattern, monitoring, driver, pc, maxInt, scored, selected, idx,
                   attempted, failedAt, cleanupCalls, quitCalls, telemetry, deadCmds>>
    /\ UNCHANGED notSess

\* navigate_with_intelligence after cleanup(): the first driver call
\* (execute_script at 684, or get at 709/712) goes to the quit handle and raises
NavigateClosed ==
    /\ pc = "ready"
    /\ driver = "quit"
    /\ deadCmds < MaxDeadCmds
    /\ deadCmds' = deadCmds + 1
    /\ lastResult' = "driver_error"
    /\ lastOp' = Op("navigate")
    /\ UNCHANGED <<pattern, monitoring, driver, pc, maxInt, scored, selected, idx,
                   attempted, failedAt, cleanupCalls, quitCalls, telemetry, metrics>>
    /\ UNCHANGED notSess

\* interact_intelligently (813-830) up to the loop, on a live handle
InteractBegin ==
    /\ pc = "ready"
    /\ driver = "live"
    /\ lastOp' = Op("interact")
    /\ \E m \in 0..MaxCount, n \in 0..MaxElems, monitorFails \in BOOLEAN :
       \E ok \in SUBSET (1..n) :
       \E sc \in [ok -> ScoreValues] :
         IF monitorFails
         THEN \* the execute_script of the monitor (684) raises before anything else
              /\ monitoring
              /\ n = 0
              /\ lastResult' = "driver_error"
              /\ UNCHANGED <<pc, maxInt, scored, selected, idx, attempted, failedAt,
                             metrics>>
         ELSE IF n = 0
         THEN \* `if not elements: return` (820-822); the monitor records on exit
              /\ lastResult' = "ok"
              /\ metrics' = IF monitoring
                            THEN metrics \cup {"intelligent_interaction"} ELSE metrics
              /\ UNCHANGED <<pc, maxInt, scored, selected, idx, attempted, failedAt>>
         ELSE \E out \in select_elements_by_behavior(pattern, score_elements(n, ok, sc), m) :
              IF out.status = "raised"
              THEN \* the ValueError leaves interact_intelligently; the monitor
                   \* records nothing (no try/finally around its yield, 686)
                   /\ lastResult' = "value_error"
                   /\ UNCHANGED <<pc, maxInt, scored, selected, idx, attempted,
                                  failedAt, metrics>>
              ELSE /\ pc' = "loop"
                   /\ maxInt' = m
                   /\ scored' = score_elements(n, ok, sc)
                   /\ selected' = out.sel
                   /\ idx' = 1
                   /\ attempted' = <<>>
                   /\ failedAt' = {}
                   /\ UNCHANGED <<lastResult, metrics>>
    /\ UNCHANGED <<pattern, monitoring, driver, cleanupCalls, quitCalls, telemetry,
                   deadCmds>>
    /\ UNCHANGED notSess

\* interact_intelligently after cleanup(): with monitoring the execute_script of
\* the monitor (684) raises; without it every find_elements raises inside the
\* try of 509-513, the element list is empty and the call returns normally
InteractClosed ==
    /\ pc = "ready"
    /\ driver = "quit"
    /\ deadCmds < MaxDeadCmds
    /\ deadCmds' = deadCmds + 1
    /\ lastResult' = IF monitoring THEN "driver_error" ELSE "ok"
    /\ lastOp' = Op("interact")
    /\ UNCHANGED <<pattern, monitoring, driver, pc, maxInt, scored, selected, idx,
                   attempted, failedAt, cleanupCalls, quitCalls, telemetry, metrics>>
    /\ UNCHANGED notSess

\* one pass of the for loop (833-838): _interact_with_element on selected[idx]
InteractElement ==
    /\ pc = "loop"
    /\ idx <= Len(selected)
    /\ \E fail \in Failures :
        LET nx == LoopNext(idx, Len(selected), interact_with_element(fail))
        IN  /\ attempted' = Append(attempted, selected[idx][1])
            /\ failedAt' = IF fail = "none" THEN failedAt ELSE failedAt \cup {idx}
            /\ IF nx.escaped
               THEN /\ pc' = "escaped"
                    /\ lastResult' = "driver_error"
                    /\ idx' = idx
               ELSE /\ idx' = nx.idx
                    /\ UNCHANGED <<pc, lastResult>>
    /\ UNCHANGED <<pattern, monitoring, driver, maxInt, scored, selected, lastOp,
                   cleanupCalls, quitCalls, telemetry, deadCmds, metrics>>
    /\ UNCHANGED notSess

\* the loop is over: the monitor records the action (688-696), unless its
\* execute_script (690) raises, and the call returns
InteractEnd ==
    /\ pc \in {"loop", "escaped"}
    /\ pc = "loop" => idx > Len(selected)
    /\ pc' = "ready"
    /\ \E monitorFails \in BOOLEAN :
        /\ monitorFails => (monitoring /\ pc = "loop")
        /\ lastResult' = (CASE pc = "escaped" -> lastResult
                            [] monitorFails -> "driver_error"
                            [] OTHER -> "ok")
        /\ metrics' = IF monitoring /\ pc = "loop" /\ ~monitorFails
                      THEN metrics \cup {"intelligent_interaction"} ELSE metrics
    /\ NoCall
    /\ UNCHANGED <<pattern, monitoring, driver, lastOp, cleanupCalls, quitCalls,
                   telemetry, deadCmds>>
    /\ UNCHANGED notSess

\* cleanup (1114-1125)
Cleanup ==
    /\ pc = "ready"
    /\ cleanupCalls < MaxCleanups
    /\ cleanupCalls' = cleanupCalls + 1
    /\ lastOp' = Op("cleanup")
    /\ lastResult' = "ok"
    /\ IF DriverTruthy(driver)
       THEN /\ telemetry' = IF monitoring THEN telemetry + 1 ELSE telemetry
            /\ quitCalls' = quitCalls + 1
            /\ driver' = "quit"
       ELSE UNCHANGED <<telemetry, quitCalls, driver>>
    /\ UNCHANGED <<pattern, monitoring, pc, maxInt, scored, selected, idx, attempted,
                   failedAt, deadCmds, metrics>>
    /\ UNCHANGED notSess

SessNext ==
    \/ NavigateLive
    \/ NavigateClosed
    \/ InteractBegin
    \/ InteractClosed
    \/ InteractElement
    \/ InteractEnd
    \/ Cleanup

----------------------------------------------------------------------------
\* Idle values of the parts a specification does not run

SessIdle ==
    /\ pattern = "casual"
    /\ monitoring = FALSE
    /\ driver = "none"
    /\ pc = "idle"
    /\ maxInt = 0
    /\ scored = <<>>
    /\ selected = <<>>
    /\ idx = 0
    /\ attempted = <<>>
    /\ failedAt = {}
    /\ lastOp = [name |-> "init", onClosed |-> FALSE]
    /\ lastResult = "none"
    /\ cleanupCalls = 0
    /\ quitCalls = 0
    /\ telemetry = 0
    /\ deadCmds = 0
    /\ metrics = {}

SelIdle ==
    /\ selPattern = "casual"
    /\ selScored = <<>>
    /\ selMax = 0
    /\ selOut = [status |-> "idle", sel |-> <<>>]

FindIdle ==
    /\ page = <<>>
    /\ findPc = "idle"
    /\ elements = <<>>
    /\ seen = {}
    /\ unique = <<>>
    /\ checked = <<>>
    /\ detached = {}

PipeIdle ==
    /\ pPage = <<>>
    /\ pPattern = "casual"
    /\ pCur = 0
    /\ pMax = 0
    /\ pPc = "idle"
    /\ pFound = <<>>
    /\ pRnd = <<>>
    /\ pStale = {}
    /\ pScored = <<>>
    /\ pSelected = <<>>

MonIdle ==
    /\ mMonitoring = FALSE
    /\ mHeadless = FALSE
    /\ mMetrics = {}
    /\ mClock = 0
    /\ mDone = <<>>
    /\ mCall = [op |-> "idle"]
    /\ mLog = <<>>

SetupIdle ==
    /\ suProfile = "windows"
    /\ suDriver = "none"
    /\ suWindow = <<>>
    /\ suPc = "idle"

TypeIdle ==
    /\ tyText = <<>>
    /\ tyField = <<>>
    /\ tyLog = <<>>
    /\ tyPc = "idle"

BezierIdle ==
    /\ bzStart = <<0, 0>>
    /\ bzEnd = <<0, 0>>
    /\ bzControl = <<>>
    /\ bzN = 0
    /\ bzPath = <<>>
    /\ bzPc = "idle"

InteractIdle ==
    /\ itScore = 0
    /\ itCur = 0
    /\ itTag = "button"
    /\ itDraws = [n |-> 0]
    /\ itFail = "none"
    /\ itLog = <<>>
    /\ itPc = "idle"

TextIdle ==
    /\ gtType = "None"
    /\ gtPlaceholder = <<>>
    /\ gtName = <<>>
    /\ gtId = <<>>
    /\ gtText = <<>>
    /\ gtPc = "idle"

ScrollIdle ==
    /\ scPattern = "casual"
    /\ scSpeed = 0
    /\ scWords = 0
    /\ scHeight = 0
    /\ scViewport = 0
    /\ scScrolls = 0
    /\ scPos = 0
    /\ scTime = 0
    /\ scSent = 0
    /\ scPc = "idle"

RunIdle ==
    /\ rnPattern = "casual"
    /\ rnProfile = "windows"
    /\ rnAutomation = "None"
    /\ rnDriver = "none"
    /\ rnError = "none"
    /\ rnPc = "idle"

----------------------------------------------------------------------------
\* The session specification

Init == SessInit /\ SelIdle /\ FindIdle /\ PipeIdle /\ MonIdle /\ SetupIdle /\ TypeIdle /\ BezierIdle /\ InteractIdle /\ TextIdle /\ ScrollIdle /\ RunIdle

Next == SessNext

Spec == Init /\ [][Next]_vars

----------------------------------------------------------------------------
\* One call of _select_elements_by_behavior on a score-sorted list

SelInit ==
    /\ selPattern \in Patterns
    /\ selMax \in 0..MaxSelCount
    /\ \E n \in 0..MaxLen : \E sc \in [1..n -> ScoreValues] :
         selScored = score_elements(n, 1..n, sc)
    /\ selOut = [status |-> "pending", sel |-> <<>>]

Select ==
    /\ selOut.status = "pending"
    /\ selOut' \in select_elements_by_behavior(selPattern, selScored, selMax)
    /\ UNCHANGED <<selPattern, selScored, selMax>>
    /\ UNCHANGED notSel

SelNext == Select

InitSelect == SessIdle /\ SelInit /\ FindIdle /\ PipeIdle /\ MonIdle /\ SetupIdle /\ TypeIdle /\ BezierIdle /\ InteractIdle /\ TextIdle /\ ScrollIdle /\ RunIdle

SpecSelect == InitSelect /\ [][SelNext]_vars

----------------------------------------------------------------------------
\* PageAnalyzer.find_interactive_elements (474-556)

\* the selector catalog (478-505), by position
Catalog == 1..NumSelectors

\* the catalog entries a node matches: a <div> (none), a <button> (selector 1,
\* "button:not([disabled])"), a <button class='btn' onclick=...> (selectors 1,
\* 10 "[class*='btn']" and 17 "[onclick]")
NodeKinds == {{}, {1}, {1, 10, 17}}

\* what the reads of _is_element_interactive run into on a node
Stale == {"stale_displayed", "stale_size", "stale_viewport"}

Behaviours == {"interactive", "hidden", "tiny", "outside", "error"} \cup Stale

\* id(element) (519): the identity of the Python object; every find_elements
\* call builds new WebElement objects, one per match
PyId(h) == h.obj

\* driver.find_elements for selector q (510): a new handle for each matching
\* node, in document order
RECURSIVE FoundUpTo(_, _, _)
FoundUpTo(pg, q, n) ==
    IF n = 0 THEN <<>>
    ELSE FoundUpTo(pg, q, n - 1)
         \o (IF q \in pg[n].matches THEN <<[obj |-> <<q, n>>, node |-> n]>> ELSE <<>>)

\* the loop over the catalog (507-513): a failing query is logged and adds nothing
RECURSIVE QueryLoop(_, _, _)
QueryLoop(pg, failed, q) ==
    IF q = 0 THEN <<>>
    ELSE QueryLoop(pg, failed, q - 1)
         \o (IF q \in failed THEN <<>> ELSE FoundUpTo(pg, q, Len(pg)))

\* the mutant of is_element_interactive: the viewport script runs outside the try
IsInteractiveViewportUnguarded(met) ==
    CASE met = "interactive" -> "true"
      [] met = "stale_viewport" -> "raised"
      [] OTHER -> "false"

\* _is_element_interactive (527-556): "true", "false", or "raised" if an
\* exception left it.  A stale reference returns False (552-553), so does any
\* other exception (554-556).
is_element_interactive(met) ==
    CASE met = "interactive" -> "true"
      [] met \in {"hidden", "tiny", "outside"} -> "false"
      [] met \in Stale -> "false"
      [] OTHER -> "false"

\* what a check of a handle on node n meets: a node already detached is stale at
\* the first read
Meets(pg, n, gone) == IF n \in gone THEN "stale_displayed" ELSE pg[n].behaviour

\* the deduplication loop (516-523) from position i on; an exception leaving
\* _is_element_interactive leaves the loop and the function
RECURSIVE DedupLoop(_, _, _, _)
DedupLoop(pg, els, i, st) ==
    IF i > Len(els) \/ st.raised THEN st
    ELSE LET element == els[i]
             element_id == PyId(element)
         IN  IF element_id \in st.seen THEN DedupLoop(pg, els, i + 1, st)
             ELSE LET met == Meets(pg, element.node, st.detached)
                      r == is_element_interactive(met)
                  IN  DedupLoop(pg, els, i + 1,
                        [seen |-> st.seen \cup {element_id},
                         unique |-> IF r = "true" THEN Append(st.unique, element)
                                    ELSE st.unique,
                         checked |-> Append(st.checked,
                                       [handle |-> element, met |-> met, result |-> r]),
                         detached |-> IF met \in Stale
                                      THEN st.detached \cup {element.node}
                                      ELSE st.detached,
                         raised |-> r = "raised"])

\* selectors that match some node of the page
Relevant(pg) == UNION {pg[n].matches : n \in DOMAIN pg}

FindInit ==
    /\ page \in [1..NumNodes -> [matches : NodeKinds, behaviour : Behaviours]]
    /\ findPc = "pending"
    /\ elements = <<>>
    /\ seen = {}
    /\ unique = <<>>
    /\ checked = <<>>
    /\ detached = {}

\* one call of find_interactive_elements; the queries in `failed` raise (a
\* failing query of a selector that matches nothing changes nothing)
FindInteractiveElements ==
    /\ findPc = "pending"
    /\ \E failed \in SUBSET Relevant(page) :
        LET els == QueryLoop(page, failed, NumSelectors)
            st == DedupLoop(page, els, 1,
                    [seen |-> {}, unique |-> <<>>, checked |-> <<>>,
                     detached |-> {}, raised |-> FALSE])
        IN  /\ elements' = els
            /\ seen' = st.seen
            /\ unique' = st.unique
            /\ checked' = st.checked
            /\ detached' = st.detached
            /\ findPc' = IF st.raised THEN "raised" ELSE "done"
    /\ UNCHANGED page
    /\ UNCHANGED notFind

FindNext == FindInteractiveElements

InitFind == SessIdle /\ SelIdle /\ FindInit /\ PipeIdle /\ MonIdle /\ SetupIdle /\ TypeIdle /\ BezierIdle /\ InteractIdle /\ TextIdle /\ ScrollIdle /\ RunIdle

SpecFind == InitFind /\ [][FindNext]_vars

----------------------------------------------------------------------------
\* Scoring from the attributes of the elements (_score_elements, 840-891) and
\* the chain find, score, select of interact_intelligently (818-830).
\* Strings are sequences of characters; scores and curiosity are in hundredths.

UpperCase == <<"A", "B", "C", "D", "E", "F", "G", "H", "I", "J", "K", "L", "M",
               "N", "O", "P", "Q", "R", "S", "T", "U", "V", "W", "X", "Y", "Z">>

LowerCase == <<"a", "b", "c", "d", "e", "f", "g", "h", "i", "j", "k", "l", "m",
               "n", "o", "p", "q", "r", "s", "t", "u", "v", "w", "x", "y", "z">>

\* str.lower() on one character
LowerChar(c) ==
    IF \E i \in DOMAIN UpperCase : UpperCase[i] = c
    THEN LowerCase[CHOOSE i \in DOMAIN UpperCase : UpperCase[i] = c]
    ELSE c

\* the mutant of Lower: the text is compared as it is written
LowerKeepsCase(s) == s

\* str.lower() (859, 868)
Lower(s) == [i \in DOMAIN s |-> LowerChar(s[i])]

\* `word in text` (870, 875): word is a substring of text
Contains(text, word) ==
    \E i \in 0..(Len(text) - Len(word)) : SubSeq(text, i + 1, i + Len(word)) = word

\* high_priority_words (869)
high_priority_words ==
    << <<"s", "u", "b", "m", "i", "t">>,
       <<"s", "e", "a", "r", "c", "h">>,
       <<"l", "o", "g", "i", "n">>,
       <<"n", "e", "x", "t">>,
       <<"c", "o", "n", "t", "i", "n", "u", "e">>,
       <<"a", "c", "c", "e", "p", "t">> >>

\* the value of an attribute that is not set (get_attribute returns None)
NoneValue == <<"None">>

\* `value or ''` (874)
OrEmpty(value) == IF value = NoneValue \/ value = <<>> THEN <<>> ELSE value

\* the mutant of SubScore: the size test is `or` instead of `and`
SubScoreEitherSide(el) ==
    LET position == IF el.y < 800 THEN 30 ELSE 0
        size == IF el.width > 100 \/ el.height > 30 THEN 20 ELSE 0
        tag_name == Lower(el.tag)
        type == IF tag_name = <<"b", "u", "t", "t", "o", "n">> THEN 30
                ELSE IF tag_name = <<"a">> THEN 25
                ELSE IF tag_name = <<"i", "n", "p", "u", "t">> THEN 20
                ELSE 0
        text == Lower(el.text)
        words == IF \E w \in DOMAIN high_priority_words :
                        Contains(text, high_priority_words[w])
                 THEN 40 ELSE 0
        class_name == OrEmpty(el.cls)
        class == IF \/ Contains(class_name, <<"p", "r", "i", "m", "a", "r", "y">>)
                    \/ Contains(class_name, <<"m", "a", "i", "n">>)
                 THEN 20 ELSE 0
    IN  position + size + type + words + class

\* the score of one element before the random term (846-876)
SubScore(el) ==
    LET position == IF el.y < 800 THEN 30 ELSE 0
        size == IF el.width > 100 /\ el.height > 30 THEN 20 ELSE 0
        tag_name == Lower(el.tag)
        type == IF tag_name = <<"b", "u", "t", "t", "o", "n">> THEN 30
                ELSE IF tag_name = <<"a">> THEN 25
                ELSE IF tag_name = <<"i", "n", "p", "u", "t">> THEN 20
                ELSE 0
        text == Lower(el.text)
        words == IF \E w \in DOMAIN high_priority_words :
                        Contains(text, high_priority_words[w])
                 THEN 40 ELSE 0
        class_name == OrEmpty(el.cls)
        class == IF \/ Contains(class_name, <<"p", "r", "i", "m", "a", "r", "y">>)
                    \/ Contains(class_name, <<"m", "a", "i", "n">>)
                 THEN 20 ELSE 0
    IN  position + size + type + words + class

\* random.uniform(0, curiosity_level * 0.3) (879): the values it can return;
\* the two ends of the interval stand for the interval
RandomTerms(cur) == {0, (cur * 30) \div 100}

\* the score of one element (846-879): its score before the random term, plus
\* the random term drawn
ElementScore(sub, rnd) == sub + rnd

\* the catalog entries (478-505) an element of this tag and class matches; the
\* elements here carry no role, data-* or onclick attribute and are not
\* disabled, anchors carry an href, inputs are not of type hidden
SelectorMatches(tag, cls) ==
    LET class_name == OrEmpty(cls)
    IN  {q \in Catalog :
            \/ q = 1 /\ tag = <<"b", "u", "t", "t", "o", "n">>
            \/ q = 2 /\ tag = <<"a">>
            \/ q = 3 /\ tag = <<"i", "n", "p", "u", "t">>
            \/ q = 10 /\ Contains(class_name, <<"b", "t", "n">>)
            \/ q = 11 /\ Contains(class_name, <<"b", "u", "t", "t", "o", "n">>)
            \/ q = 12 /\ Contains(class_name, <<"l", "i", "n", "k">>)
            \/ q = 13 /\ Contains(class_name, <<"c", "l", "i", "c", "k", "a", "b", "l", "e">>)}

\* a node of the page: what the driver reports of it (location, size, tag_name,
\* text, class), what _is_element_interactive meets on it, the selectors it matches
Node(y, w, h, tag, text, cls, behaviour) ==
    [y |-> y, width |-> w, height |-> h, tag |-> tag, text |-> text, cls |-> cls,
     behaviour |-> behaviour, matches |-> SelectorMatches(tag, cls)]

\* <button>Submit</button>, large, above the fold
SubmitButton ==
    Node(120, 200, 50, <<"b", "u", "t", "t", "o", "n">>,
         <<"S", "u", "b", "m", "i", "t">>, NoneValue, "interactive")

\* <a href=...>more</a>, 3 by 3 pixels, not displayed
TinyLink ==
    Node(900, 3, 3, <<"a">>, <<"m", "o", "r", "e">>, NoneValue, "hidden")

\* <input class="main">, just above the fold, just over the size limits
MainInput ==
    Node(799, 101, 31, <<"i", "n", "p", "u", "t">>, <<>>, <<"m", "a", "i", "n">>,
         "interactive")

\* <div class="Primary clickable">NEXT</div>, at the fold, width at the limit
NextDiv ==
    Node(800, 100, 31, <<"d", "i", "v">>, <<"N", "E", "X", "T">>,
         <<"P", "r", "i", "m", "a", "r", "y", " ", "c", "l", "i", "c", "k", "a", "b", "l", "e">>,
         "interactive")

\* <a class="btn-primary" href=...>log in</a>, height at the limit
LoginLink ==
    Node(0, 101, 30, <<"a">>, <<"l", "o", "g", " ", "i", "n">>,
         <<"b", "t", "n", "-", "p", "r", "i", "m", "a", "r", "y">>, "interactive")

\* <button class="">Search</button>, large, below the fold
SearchButton ==
    Node(800, 200, 50, <<"b", "u", "t", "t", "o", "n">>,
         <<"S", "e", "a", "r", "c", "h">>, <<>>, "interactive")

\* <span class="link">cancel</span>, small, below the fold
CancelSpan ==
    Node(1000, 10, 10, <<"s", "p", "a", "n">>, <<"c", "a", "n", "c", "e", "l">>,
         <<"l", "i", "n", "k">>, "interactive")

\* the nodes a page is made of, by name
PageElements ==
    {"SubmitButton", "TinyLink", "MainInput", "NextDiv", "LoginLink", "SearchButton",
     "CancelSpan"}

Describe(name) ==
    CASE name = "SubmitButton" -> SubmitButton
      [] name = "TinyLink" -> TinyLink
      [] name = "MainInput" -> MainInput
      [] name = "NextDiv" -> NextDiv
      [] name = "LoginLink" -> LoginLink
      [] name = "SearchButton" -> SearchButton
      [] OTHER -> CancelSpan

\* the page the driver sees
Document(pg) == [n \in DOMAIN pg |-> Describe(pg[n])]

\* UserBehavior.generate_persona (215-251): the ends of the interval the
\* curiosity_level of a pattern is drawn from
CuriosityLevels(p) ==
    CASE p = "casual" -> {30, 50}
      [] p = "focused" -> {10, 30}
      [] p = "explorer" -> {70, 90}
      [] p = "scanner" -> {40, 60}
      [] OTHER -> {60, 80}

\* the values of max_interactions: a small one and the default (813)
InteractionCounts == {1, 5}

PipeInit ==
    /\ pPage \in [1..NumPageElems -> PageElements]
    /\ pPattern \in Patterns
    /\ pCur \in CuriosityLevels(pPattern)
    /\ pMax \in InteractionCounts
    /\ pPc = "find"
    /\ pFound = <<>>
    /\ pRnd = <<>>
    /\ pStale = {}
    /\ pScored = <<>>
    /\ pSelected = <<>>

\* the score before the random term of each node of the catalogue
SubScoreOf == [name \in PageElements |-> SubScore(Describe(name))]

\* the scores before the random term of the first n elements found, in order
RECURSIVE SubScores(_, _, _)
SubScores(pg, found, n) ==
    IF n = 0 THEN <<>>
    ELSE Append(SubScores(pg, found, n - 1), SubScoreOf[pg[found[n].node]])

\* elements = self.analyzer.find_interactive_elements() (818-822); every query
\* is answered
PipeFind ==
    /\ pPc = "find"
    /\ LET els == QueryLoop(Document(pPage), {}, NumSelectors)
           st == DedupLoop(Document(pPage), els, 1,
                   [seen |-> {}, unique |-> <<>>, checked |-> <<>>,
                    detached |-> {}, raised |-> FALSE])
       IN  /\ pFound' = st.unique
           /\ pPc' = IF st.unique = <<>> THEN "done" ELSE "score"
    /\ UNCHANGED <<pPage, pPattern, pCur, pMax, pRnd, pStale, pScored, pSelected>>
    /\ UNCHANGED notPipe

\* scored_elements = self._score_elements(elements) (827): a random term is drawn
\* for each element; the reads of at most one element raise (883-887)
PipeScore ==
    /\ pPc = "score"
    /\ LET subs == SubScores(pPage, pFound, Len(pFound))
       IN  \E rnd \in [DOMAIN pFound -> RandomTerms(pCur)] :
           \E stale \in {{}} \cup {{k} : k \in DOMAIN pFound} :
            /\ pRnd' = rnd
            /\ pStale' = stale
            /\ pScored' = score_elements(Len(pFound), DOMAIN pFound \ stale,
                            [k \in DOMAIN pFound |-> ElementScore(subs[k], rnd[k])])
    /\ pPc' = "select"
    /\ UNCHANGED <<pPage, pPattern, pCur, pMax, pFound, pSelected>>
    /\ UNCHANGED notPipe

\* selected = self._select_elements_by_behavior(scored_elements, max_interactions)
\* (830)
PipeSelect ==
    /\ pPc = "select"
    /\ \E out \in select_elements_by_behavior(pPattern, pScored, pMax) :
        /\ pSelected' = out.sel
        /\ pPc' = IF out.status = "raised" THEN "raised" ELSE "done"
    /\ UNCHANGED <<pPage, pPattern, pCur, pMax, pFound, pRnd, pStale, pScored>>
    /\ UNCHANGED notPipe

PipeNext == PipeFind \/ PipeScore \/ PipeSelect

InitPipe == SessIdle /\ SelIdle /\ FindIdle /\ PipeInit /\ MonIdle /\ SetupIdle /\ TypeIdle /\ BezierIdle /\ InteractIdle /\ TextIdle /\ ScrollIdle /\ RunIdle

SpecPipe == InitPipe /\ [][PipeNext]_vars

----------------------------------------------------------------------------
\* Monitored actions: performance_monitor (680-698) around
\* navigate_with_intelligence (700-721) and interact_intelligently (813-838),
\* with the commands one navigation sends to the driver.

\* the pages navigated to
Urls == {"https://a.example", "https://b.example"}

\* f"navigate_to_{url}" (703)
NavigateName(url) == <<"navigate_to", url>>

\* "intelligent_interaction" (816)
InteractName == <<"intelligent_interaction">>

\* the mutant of Record: the entry is added, an earlier one of the name is kept
RecordAlso(entries, action_name, metric) == entries \cup {<<action_name, metric>>}

\* self.performance_metrics[action_name] = {...} (692-696): the entry of the
\* name is replaced, the entries of the other names stay
Record(entries, action_name, metric) ==
    {e \in entries : e[1] # action_name} \cup {<<action_name, metric>>}

\* what leaves the `with performance_monitor(...)` block: the metric is recorded
\* only if monitoring is on, the body returned and the closing memory script
\* did not raise (686-696; there is no try/finally around the yield)
MonitorExit(entries, action_name, metric, on, out) ==
    IF on /\ out = "ok" THEN Record(entries, action_name, metric) ELSE entries

\* the points where a navigation can fail
NavOutcomes ==
    {"ok", "start_script", "blank_load", "load", "wait_timeout", "wait_error",
     "analysis", "scroll", "end_script"}

\* k commands c
Repeat(c, k) == [i \in 1..k |-> c]

\* the steps of a navigation in order, each with the commands it sends and the
\* outcome that stops the call there
NavigateSteps(url, typed, k, on) ==
    << [cmds |-> IF on THEN << <<"script", "memory">> >> ELSE <<>>,
        stops |-> {"start_script"}],
       [cmds |-> IF typed THEN << <<"get", "about:blank">> >> ELSE <<>>,
        stops |-> {"blank_load"}],
       [cmds |-> << <<"get", url>> >>, stops |-> {"load"}],
       [cmds |-> << <<"script", "readyState">> >>,
        stops |-> {"wait_timeout", "wait_error"}],
       [cmds |-> Repeat(<<"script", "framework">>, 3), stops |-> {}],
       [cmds |-> << <<"script", "analyze">> >>, stops |-> {"analysis"}],
       [cmds |-> Repeat(<<"script", "scrollBy">>, k), stops |-> {"scroll"}],
       [cmds |-> IF on THEN << <<"script", "memory">> >> ELSE <<>>,
        stops |-> {"end_script"}] >>

\* the commands sent up to and including the step that stops the call
RECURSIVE CommandsFrom(_, _, _)
CommandsFrom(steps, i, out) ==
    IF i > Len(steps) THEN <<>>
    ELSE steps[i].cmds
         \o (IF out \in steps[i].stops THEN <<>> ELSE CommandsFrom(steps, i + 1, out))

\* the mutant of navigate_commands: a failed load is tried once more
NavigateRetrying(url, typed, out, k, on) ==
    IF out = "load"
    THEN CommandsFrom(NavigateSteps(url, typed, k, on), 1, out) \o << <<"get", url>> >>
    ELSE CommandsFrom(NavigateSteps(url, typed, k, on), 1, out)

\* the commands one call of navigate_with_intelligence(url) sends (703-721):
\* typed is the draw of 707, out the point of failure, k the number of scroll
\* commands of the scan, on is enable_monitoring
navigate_commands(url, typed, out, k, on) ==
    CommandsFrom(NavigateSteps(url, typed, k, on), 1, out)

\* an outcome that can happen with these draws
NavPossible(typed, out, k, on) ==
    /\ out \in {"start_script", "end_script"} => on
    /\ out = "blank_load" => typed
    /\ out = "scroll" => k >= 1

\* what the caller gets
NavResult(out) ==
    CASE out = "ok" -> "ok"
      [] out = "wait_timeout" -> "timeout_error"
      [] OTHER -> "driver_error"

MonInit ==
    /\ mMonitoring \in BOOLEAN
    /\ mHeadless \in BOOLEAN
    /\ mMetrics = {}
    /\ mClock = 0
    /\ mDone = <<>>
    /\ mCall = [op |-> "init", url |-> "", typed |-> FALSE, out |-> "ok", result |-> "ok"]
    /\ mLog = <<>>

\* one call of navigate_with_intelligence(url)
MonNavigate ==
    /\ mClock < MaxCalls
    /\ \E url \in Urls, draw \in BOOLEAN, out \in NavOutcomes, k \in 0..MaxScrolls :
        LET typed == draw /\ ~mHeadless
        IN  /\ NavPossible(typed, out, k, mMonitoring)
            /\ mClock' = mClock + 1
            /\ mLog' = navigate_commands(url, typed, out, k, mMonitoring)
            /\ mCall' = [op |-> "navigate", url |-> url, typed |-> typed, out |-> out,
                         result |-> NavResult(out)]
            /\ mMetrics' = MonitorExit(mMetrics, NavigateName(url), mClock + 1,
                                       mMonitoring, out)
            /\ mDone' = IF out = "ok"
                        THEN Append(mDone, [name |-> NavigateName(url), at |-> mClock + 1])
                        ELSE mDone
    /\ UNCHANGED <<mMonitoring, mHeadless>>
    /\ UNCHANGED notMon

\* one call of interact_intelligently(): it returns (also when no element is
\* found, 820-822), or a monitor script or the selection raises
MonInteract ==
    /\ mClock < MaxCalls
    /\ \E out \in {"ok", "start_script", "selection", "end_script"} :
        /\ out \in {"start_script", "end_script"} => mMonitoring
        /\ mClock' = mClock + 1
        /\ mLog' = <<>>
        /\ mCall' = [op |-> "interact", url |-> "", typed |-> FALSE, out |-> out,
                     result |-> IF out = "ok" THEN "ok" ELSE "error"]
        /\ mMetrics' = MonitorExit(mMetrics, InteractName, mClock + 1, mMonitoring, out)
        /\ mDone' = IF out = "ok"
                    THEN Append(mDone, [name |-> InteractName, at |-> mClock + 1])
                    ELSE mDone
    /\ UNCHANGED <<mMonitoring, mHeadless>>
    /\ UNCHANGED notMon

MonNext == MonNavigate \/ MonInteract

InitMon == SessIdle /\ SelIdle /\ FindIdle /\ PipeIdle /\ MonInit /\ SetupIdle /\ TypeIdle /\ BezierIdle /\ InteractIdle /\ TextIdle /\ ScrollIdle /\ RunIdle

SpecMon == InitMon /\ [][MonNext]_vars

----------------------------------------------------------------------------
\* Initializing: AdvancedWebAutomation.__init__ (580-596) and _setup_driver
\* (609-669)

\* the profiles of BrowserProfile.generate_random_profile (89-117)
Profiles == {"windows", "macos", "linux"}

\* profile.viewport (93, 102, 111)
ProfileViewport(p) == IF p = "macos" THEN <<1440, 900>> ELSE <<1920, 1080>>

\* viewports of AntiDetection.randomize_viewport (389-392)
RandomViewports ==
    {<<1920, 1080>>, <<1440, 900>>, <<1536, 864>>, <<1366, 768>>, <<1280, 720>>,
     <<1600, 900>>}

\* random.randint(-10, 10) (396-397)
Offsets == -10..10

\* the sizes randomize_viewport can pass to set_window_size (393-399)
randomize_viewport == {<<v[1] + dx, v[2] + dy>> : v \in RandomViewports, dx, dy \in Offsets}

\* 'viewport' of export_session_data (1106)
TelemetryViewport(p) == ProfileViewport(p)

\* the steps of _setup_driver that can raise
SetupFailures == {"none", "create", "stealth", "resize", "timeouts"}

SetupInit ==
    /\ suProfile \in Profiles
    /\ suDriver = "none"
    /\ suWindow = <<>>
    /\ suPc = "new"

\* _setup_driver: Chrome starts with window-size=profile.viewport (616, 655),
\* then randomize_viewport resizes the window (659)
SetupDriver ==
    /\ suPc = "new"
    /\ \E fail \in SetupFailures, size \in randomize_viewport :
        /\ suDriver' = IF fail = "create" THEN "none" ELSE "live"
        /\ suWindow' = CASE fail = "create" -> <<>>
                         [] fail \in {"stealth", "resize"} -> ProfileViewport(suProfile)
                         [] OTHER -> size
        /\ suPc' = IF fail = "none" THEN "ready" ELSE "failed"
    /\ UNCHANGED suProfile
    /\ UNCHANGED notSetup

SetupNext == SetupDriver

InitSetup == SessIdle /\ SelIdle /\ FindIdle /\ PipeIdle /\ MonIdle /\ SetupInit /\ TypeIdle /\ BezierIdle /\ InteractIdle /\ TextIdle /\ ScrollIdle /\ RunIdle

SpecSetup == InitSetup /\ [][SetupNext]_vars

----------------------------------------------------------------------------
\* _type_like_human (1039-1066): the commands sent to the element and the
\* content of the field

\* the characters of the texts typed
TextChars == {"a", "b"}

\* the texts of up to MaxTextLen characters
Texts == UNION {[1..n -> TextChars] : n \in 0..MaxTextLen}

\* Keys.BACKSPACE (1065)
Backspace == "BACKSPACE"

\* for char in text: element.send_keys(char) (1044-1045)
Keystrokes(text) == [i \in 1..Len(text) |-> <<"send_keys", text[i]>>]

\* the typo and its correction (1059-1066)
TypoPair(letter) == << <<"send_keys", letter>>, <<"send_keys", Backspace>> >>

\* the mutant of typing_commands: the typo does not look at the length of the text
TypingCommandsTypoAlways(text, typo, letter) ==
    << <<"clear">> >> \o Keystrokes(text)
    \o (IF typo THEN TypoPair(letter) ELSE <<>>)

\* the commands of one complete call (1042-1066): typo is the draw
\* random.random() < 0.1, letter the letter drawn for the typo
typing_commands(text, typo, letter) ==
    << <<"clear">> >> \o Keystrokes(text)
    \o (IF typo /\ Len(text) > 5 THEN TypoPair(letter) ELSE <<>>)

\* the field after one command
FieldAfterKey(content, cmd) ==
    IF cmd = <<"clear">> THEN <<>>
    ELSE IF cmd[2] = Backspace THEN SubSeq(content, 1, Len(content) - 1)
    ELSE Append(content, cmd[2])

\* the field after the first n commands of cmds
RECURSIVE FieldAfter(_, _, _)
FieldAfter(content, cmds, n) ==
    IF n = 0 THEN content
    ELSE FieldAfterKey(FieldAfter(content, cmds, n - 1), cmds[n])

TypeInit ==
    /\ tyText \in Texts
    /\ tyField \in {<<>>, <<"b", "a">>}
    /\ tyLog = <<>>
    /\ tyPc = "new"

\* one call of _type_like_human(element, tyText); with failAt > 0 the failAt-th
\* command raises and has no effect on the field
TypeLikeHuman ==
    /\ tyPc = "new"
    /\ \E typo \in BOOLEAN, letter \in Range(LowerCase) :
        LET cmds == typing_commands(tyText, typo, letter)
        IN  \E failAt \in 0..Len(cmds) :
                /\ tyLog' = IF failAt = 0 THEN cmds ELSE SubSeq(cmds, 1, failAt)
                /\ tyField' = IF failAt = 0 THEN FieldAfter(tyField, cmds, Len(cmds))
                              ELSE FieldAfter(tyField, cmds, failAt - 1)
                /\ tyPc' = IF failAt = 0 THEN "returned" ELSE "raised"
    /\ UNCHANGED tyText
    /\ UNCHANGED notType

TypeNext == TypeLikeHuman

InitType == SessIdle /\ SelIdle /\ FindIdle /\ PipeIdle /\ MonIdle /\ SetupIdle /\ TypeInit /\ BezierIdle /\ InteractIdle /\ TextIdle /\ ScrollIdle /\ RunIdle

SpecType == InitType /\ [][TypeNext]_vars

----------------------------------------------------------------------------
\* MouseMovement.bezier_curve (140-176).  Coordinates are integers; a parameter
\* t and a coordinate of a point of the curve are fractions <<numerator,
\* denominator>>, computed exactly.

\* the coordinates of the end points
Coords == {0, 40}

EndPoints == Coords \X Coords

\* control_points as passed by the caller: <<>> is None
ControlChoices ==
    {<<>>} \cup {<<p, q>> : p, q \in {<<0, 0>>, <<10, 50>>}}

\* random.uniform(-100, 100) (152-153): the ends and the middle of the interval
OffsetDraws == {-100, 0, 100}

\* the control points drawn when none are passed (146-158)
DefaultControl(start, end, offset_x, offset_y) ==
    LET mid_x == (start[1] + end[1]) \div 2
        mid_y == (start[2] + end[2]) \div 2
    IN  << <<mid_x + offset_x, mid_y + offset_y>>,
           <<mid_x - offset_x \div 2, mid_y - offset_y \div 2>> >>

\* the mutant of Linspace: the stop value is left out (endpoint=False)
LinspaceOpen(n) == [i \in 1..n |-> <<i - 1, n>>]

\* np.linspace(0, 1, n) (161): n values from 0 to 1, both included; for n = 1
\* the one value is 0
Linspace(n) ==
    IF n = 1 THEN << <<0, 1>> >>
    ELSE [i \in 1..n |-> <<i - 1, n - 1>>]

\* one coordinate of the point at t = a/b (163-171)
BezierCoordinate(t, p0, p1, p2, p3) ==
    LET a == t[1]
        b == t[2]
        u == b - a
    IN  << u * u * u * p0 + 3 * u * u * a * p1 + 3 * u * a * a * p2 + a * a * a * p3,
           b * b * b >>

\* points (160-176)
bezier_curve(start, end, control_points, num_points) ==
    LET ts == Linspace(num_points)
    IN  [i \in DOMAIN ts |->
            [x |-> BezierCoordinate(ts[i], start[1], control_points[1][1],
                                    control_points[2][1], end[1]),
             y |-> BezierCoordinate(ts[i], start[2], control_points[1][2],
                                    control_points[2][2], end[2])]]

BezierInit ==
    /\ bzStart \in EndPoints
    /\ bzEnd \in EndPoints
    /\ bzControl \in ControlChoices
    /\ bzN \in 0..MaxPoints
    /\ bzPath = <<>>
    /\ bzPc = "new"

\* one call bezier_curve(bzStart, bzEnd, bzControl, bzN)
BezierCurve ==
    /\ bzPc = "new"
    /\ \E offset_x, offset_y \in OffsetDraws :
        LET control_points == IF bzControl = <<>>
                              THEN DefaultControl(bzStart, bzEnd, offset_x, offset_y)
                              ELSE bzControl
        IN  bzPath' = bezier_curve(bzStart, bzEnd, control_points, bzN)
    /\ bzPc' = "returned"
    /\ UNCHANGED <<bzStart, bzEnd, bzControl, bzN>>
    /\ UNCHANGED notBezier

BezierNext == BezierCurve

InitBezier == SessIdle /\ SelIdle /\ FindIdle /\ PipeIdle /\ MonIdle /\ SetupIdle /\ TypeIdle /\ BezierInit /\ InteractIdle /\ TextIdle /\ ScrollIdle /\ RunIdle

SpecBezier == InitBezier /\ [][BezierNext]_vars

----------------------------------------------------------------------------
\* _interact_with_element (932-1000) with _handle_input (1002-1018) and
\* _handle_post_click (1068-1097): the commands one call sends.  The draw r of
\* random.random() is in ten-thousandths, score and curiosity in hundredths.

\* the points where the call can fail
InteractFailures ==
    Failures \cup {"mouse_pos", "tag", "after_click", "alert_text", "alert_accept"}

\* the mutant of Clicks: the draw is compared with <=
ClicksInclusive(score, cur, r) == r <= score * cur

\* random.random() < click_probability, click_probability being
\* score * self.behavior.curiosity_level (982-983)
Clicks(score, cur, r) == r < score * cur

\* the draws of random.random() worth telling apart for a click probability p:
\* the least, the ones next to p, the greatest below 1
ClickDraws(p) == {0, p - 1, p, 9999} \cap 0..9999

\* the text typed into a text input ("Test input N", 1037), cut short
InputText == <<"a", "b">>

\* the commands of _handle_input (1002-1018) after the click on an <input>
InputSteps(type) ==
    << [cmds |-> << <<"read", "type">> >>, stops |-> {"after_click"}] >>
    \o (IF type = "text"
        THEN << [cmds |-> << <<"read", "placeholder">>, <<"read", "name">>,
                            <<"read", "id">> >>, stops |-> {}],
                [cmds |-> << <<"clear">> >>, stops |-> {"typing"}],
                [cmds |-> Keystrokes(InputText), stops |-> {}] >>
        ELSE <<>>)

\* the commands of the inner try of _handle_post_click (1077-1083): the alert
\* is looked for; if there is one its text is read and it is accepted; whatever
\* is raised there is passed over
AlertCommands(alert, fail) ==
    << <<"alert", "switch_to">> >>
    \o (IF ~alert THEN <<>>
        ELSE IF fail = "alert_text" THEN << <<"alert", "text">> >>
        ELSE << <<"alert", "text">>, <<"alert", "accept">> >>)

\* the reads of current_url (1086-1087) and what follows them (1088-1094)
UrlSteps(nav, back) ==
    << [cmds |-> << <<"read", "current_url">> >>, stops |-> {"post_click"}],
       [cmds |-> << <<"read", "current_url">> >>, stops |-> {}],
       [cmds |-> IF nav = "between_reads" /\ back THEN << <<"back">> >> ELSE <<>>,
        stops |-> {}] >>

\* the mutant of PostClickSteps: there is no inner try, what the alert handling
\* raises ends the post-click handling
PostClickStepsOneTry(alert, nav, back, fail) ==
    IF ~alert \/ fail \in {"alert_text", "alert_accept"}
    THEN << [cmds |-> AlertCommands(alert, fail), stops |-> {fail}] >>
    ELSE << [cmds |-> AlertCommands(alert, fail), stops |-> {}] >> \o UrlSteps(nav, back)

\* the commands of _handle_post_click (1068-1097): the alert handling, then
\* current_url is read twice and the two values compared (1086-1087); an
\* exception outside the inner try ends the handling (1096-1097)
PostClickSteps(alert, nav, back, fail) ==
    << [cmds |-> AlertCommands(alert, fail), stops |-> {}] >> \o UrlSteps(nav, back)

\* the steps of one call in order: n is the number of points of the path,
\* clicks the decision of 983
InteractSteps(n, clicks, tag, type, alert, nav, back, fail) ==
    << [cmds |-> << <<"script", "scrollIntoView">> >>, stops |-> {"scroll"}],
       [cmds |-> << <<"read", "location">> >>, stops |-> {"geometry"}],
       [cmds |-> << <<"read", "size">> >>, stops |-> {}],
       [cmds |-> << <<"script", "mouseX">> >>, stops |-> {"mouse_pos"}],
       [cmds |-> << <<"script", "mouseY">> >>, stops |-> {}],
       [cmds |-> Repeat(<<"move">>, n), stops |-> {"move"}] >>
    \o (IF clicks
        THEN << [cmds |-> << <<"read", "tag_name">> >>, stops |-> {"tag"}],
                [cmds |-> << <<"click">> >>, stops |-> {"click"}] >>
             \o (IF tag = "input" THEN InputSteps(type)
                 ELSE << [cmds |-> << <<"read", "text">> >>, stops |-> {"after_click"}] >>)
             \o PostClickSteps(alert, nav, back, fail)
        ELSE << [cmds |-> << <<"read", "text">> >>, stops |-> {}] >>)

\* the commands one call sends: d holds the draws and what the page does, fail
\* the point of failure; every exception is caught (935, 999-1000)
interact_commands(score, cur, tag, d, fail) ==
    CommandsFrom(InteractSteps(d.n, Clicks(score, cur, d.r), tag, d.type, d.alert,
                               d.nav, d.back, fail), 1, fail)

InteractInit ==
    /\ itScore \in {0, 60, 150}
    /\ itCur \in {10, 90}
    /\ itTag \in {"input", "button"}
    /\ itDraws = [n |-> 0]
    /\ itFail = "none"
    /\ itLog = <<>>
    /\ itPc = "new"

\* one call of _interact_with_element(element, itScore)
InteractWithElement ==
    /\ itPc = "new"
    /\ \E n \in 1..MaxPath, r \in ClickDraws(itScore * itCur),
          type \in {"text", "checkbox"}, alert \in BOOLEAN,
          nav \in {"no", "before_reads", "between_reads"}, back \in BOOLEAN,
          fail \in InteractFailures :
        LET d == [n |-> n, r |-> r, type |-> type, alert |-> alert, nav |-> nav,
                  back |-> back]
        IN  /\ itDraws' = d
            /\ itFail' = fail
            /\ itLog' = interact_commands(itScore, itCur, itTag, d, fail)
    /\ itPc' = "returned"
    /\ UNCHANGED <<itScore, itCur, itTag>>
    /\ UNCHANGED notInteract

InteractNext == InteractWithElement

InitInteract == SessIdle /\ SelIdle /\ FindIdle /\ PipeIdle /\ MonIdle /\ SetupIdle /\ TypeIdle /\ BezierIdle /\ InteractInit /\ TextIdle /\ ScrollIdle /\ RunIdle

SpecInteract == InitInteract /\ [][InteractNext]_vars

----------------------------------------------------------------------------
\* The content typed into an input (_handle_input 1002-1018,
\* _generate_realistic_text 1020-1037). A text is the tuple of the pieces it is
\* concatenated from; a drawn number is written as its digits.

\* the hints of 1028-1035
NameHint == <<"n", "a", "m", "e">>
EmailHint == <<"e", "m", "a", "i", "l">>
PhoneHint == <<"p", "h", "o", "n", "e">>
SearchHint == <<"s", "e", "a", "r", "c", "h">>

\* the values an attribute of the element takes in the model
AttributeValues ==
    {NoneValue, <<"q">>, <<"N", "a", "m", "e">>, EmailHint,
     <<"P", "h", "o", "n", "e">>, <<"s", "e", "a", "r", "c", "h">>}

\* the values of the type attribute
TypeValues == {"None", "", "text", "email", "password", "search", "checkbox"}

\* `element.get_attribute('type') or 'text'` (1005)
TypeOrText(type) == IF type \in {"None", ""} THEN "text" ELSE type

\* the texts each generator returns, the numbers drawn at the ends of their
\* ranges
FullNames == {<<"John Smith">>, <<"Jane Doe">>, <<"Alice Johnson">>}
Addresses == {<<"user", n, "@example.com">> : n \in {"100", "999"}}
PhoneNumbers == {<<"555-", a, "-", b>> : a \in {"100", "999"}, b \in {"1000", "9999"}}
QueryTerms == {<<"test query">>, <<"sample search">>, <<"demo">>}
GenericTexts == {<<"Test input ", n>> : n \in {"1", "100"}}
TestAddresses == {<<"test", n, "@example.com">> : n \in {"1000", "9999"}}
Passwords == {<<"Test", d, "!">> : d \in {"1111", "9999"}}
search_terms ==
    {<<"python">>, <<"machine learning">>, <<"web development">>, <<"data science">>}

\* _generate_realistic_text(element) (1020-1037): the texts it can return;
\* element_id is read (1025) and not looked at
generate_realistic_text(placeholder, name, element_id) ==
    LET p == Lower(OrEmpty(placeholder))
        n == Lower(OrEmpty(name))
    IN  IF Contains(p, NameHint) \/ Contains(n, NameHint) THEN FullNames
        ELSE IF Contains(p, EmailHint) \/ Contains(n, EmailHint) THEN Addresses
        ELSE IF Contains(p, PhoneHint) \/ Contains(n, PhoneHint) THEN PhoneNumbers
        ELSE IF Contains(p, SearchHint) \/ Contains(n, SearchHint) THEN QueryTerms
        ELSE GenericTexts

\* _handle_input(element) (1002-1018): the texts it can hand to
\* _type_like_human, <<>> when it types nothing
handle_input(type, placeholder, name, element_id) ==
    LET input_type == TypeOrText(type)
    IN  IF input_type = "text"
        THEN generate_realistic_text(placeholder, name, element_id)
        ELSE IF input_type = "email" THEN TestAddresses
        ELSE IF input_type = "password" THEN Passwords
        ELSE IF input_type = "search" THEN search_terms
        ELSE {<<>>}

TextInit ==
    /\ gtType \in TypeValues
    /\ gtPlaceholder \in AttributeValues
    /\ gtName \in AttributeValues
    /\ gtId \in AttributeValues
    /\ gtText = <<>>
    /\ gtPc = "new"

\* one call of _handle_input(element)
HandleInput ==
    /\ gtPc = "new"
    /\ gtText' \in handle_input(gtType, gtPlaceholder, gtName, gtId)
    /\ gtPc' = "returned"
    /\ UNCHANGED <<gtType, gtPlaceholder, gtName, gtId>>
    /\ UNCHANGED notText

TextNext == HandleInput

InitText == SessIdle /\ SelIdle /\ FindIdle /\ PipeIdle /\ MonIdle /\ SetupIdle /\ TypeIdle /\ BezierIdle /\ InteractIdle /\ TextInit /\ ScrollIdle /\ RunIdle

SpecText == InitText /\ [][TextNext]_vars

----------------------------------------------------------------------------
\* The scroll patterns of a page scan (_simulate_page_scanning 755-766,
\* _rapid_scroll 768-777, _methodical_scroll 779-797, _normal_scroll 799-811),
\* one loop iteration per step. Lengths are in pixels, times in seconds.

\* the page heights, viewport heights and word counts of the model; 100 is the
\* word count taken when the page analysis has none (763)
PageHeights == {0, 300, 1000, 2000, MaxPageHeight}
ViewportHeights == {500, 1000}
WordCounts == {0, 5, 100, MaxWords}

\* reading_speed of a persona (217, 224, 231, 238, 245), at the ends of its range
ReadingSpeeds(p) ==
    CASE p = "casual" -> {200, 250}
      [] p = "focused" -> {300, 400}
      [] p = "explorer" -> {250, 350}
      [] p = "scanner" -> {400, 500}
      [] p = "researcher" -> {150, 200}

\* random.randint(300, 600) (773)
RapidAmounts == {300, 450, 600}

\* random.uniform(2, 4) (790), the time one iteration takes
ReadingPauses == {2, 3, 4}

\* random.randint(3, 7) (801)
ScrollCounts == 3..7

\* viewport_height * 0.8 (787)
ScrollChunk(viewport_height) == (viewport_height * 8) \div 10

\* window.pageYOffset after scrollBy(0, amount): the browser scrolls no further
\* than the bottom of the page
OffsetAfter(offset, amount, page_height, viewport_height) ==
    LET bottom == IF page_height > viewport_height THEN page_height - viewport_height
                  ELSE 0
    IN  Min(offset + amount, bottom)

\* `time.time() - start_time < estimated_reading_time` (785) with
\* estimated_reading_time = (word_count / reading_speed) * 60 (781)
StillReading(elapsed, word_count, reading_speed) ==
    elapsed * reading_speed < word_count * 60

\* the mutant of ReachedBottom: the bottom is reached only when passed
ReachedBottomStrict(current_position, viewport_height, page_height) ==
    current_position + viewport_height > page_height

\* `current_position + viewport_height >= page_height` (796)
ReachedBottom(current_position, viewport_height, page_height) ==
    current_position + viewport_height >= page_height

\* `current_position < page_height` (772)
RapidContinues(current_position, page_height) == current_position < page_height

ScrollInit ==
    /\ scPattern \in Patterns
    /\ scSpeed \in ReadingSpeeds(scPattern)
    /\ scWords \in WordCounts
    /\ scHeight \in PageHeights
    /\ scViewport \in ViewportHeights
    /\ scScrolls = 0
    /\ scPos = 0
    /\ scTime = 0
    /\ scSent = 0
    /\ scPc = "new"

scrollFixed == <<scPattern, scSpeed, scWords, scHeight, scViewport>>

\* _simulate_page_scanning enters the pattern of the persona (758-766): the
\* reads of 770 and 784-785 succeed, scrolls is drawn (801)
ScrollBegin ==
    /\ scPc = "new"
    /\ scPc' = "loop"
    /\ IF scPattern \in {"scanner", "researcher"}
       THEN scScrolls' = 0
       ELSE scScrolls' \in ScrollCounts
    /\ UNCHANGED <<scPos, scTime, scSent>>
    /\ UNCHANGED scrollFixed
    /\ UNCHANGED notScroll

\* one iteration of the loop of _rapid_scroll (772-777)
RapidStep ==
    /\ scPc = "loop"
    /\ scPattern = "scanner"
    /\ RapidContinues(scPos, scHeight)
    /\ \E scroll_amount \in RapidAmounts : scPos' = scPos + scroll_amount
    /\ scSent' = scSent + 1
    /\ UNCHANGED <<scScrolls, scTime, scPc>>
    /\ UNCHANGED scrollFixed
    /\ UNCHANGED notScroll

\* one iteration of the loop of _methodical_scroll (785-797): scroll, pause,
\* read the offset, leave the loop at the bottom
MethodicalStep ==
    /\ scPc = "loop"
    /\ scPattern = "researcher"
    /\ StillReading(scTime, scWords, scSpeed)
    /\ scSent' = scSent + 1
    /\ \E pause \in ReadingPauses : scTime' = scTime + pause
    /\ scPos' = OffsetAfter(scPos, ScrollChunk(scViewport), scHeight, scViewport)
    /\ scPc' = IF ReachedBottom(scPos', scViewport, scHeight) THEN "returned" ELSE "loop"
    /\ UNCHANGED scScrolls
    /\ UNCHANGED scrollFixed
    /\ UNCHANGED notScroll

\* one iteration of the loop of _normal_scroll (802-811)
NormalStep ==
    /\ scPc = "loop"
    /\ scPattern \notin {"scanner", "researcher"}
    /\ scSent < scScrolls
    /\ scSent' = scSent + 1
    /\ UNCHANGED <<scScrolls, scPos, scTime, scPc>>
    /\ UNCHANGED scrollFixed
    /\ UNCHANGED notScroll

\* the loop condition is false: the pattern returns
ScrollEnd ==
    /\ scPc = "loop"
    /\ CASE scPattern = "scanner" -> ~RapidContinues(scPos, scHeight)
         [] scPattern = "researcher" -> ~StillReading(scTime, scWords, scSpeed)
         [] OTHER -> scSent >= scScrolls
    /\ scPc' = "returned"
    /\ UNCHANGED <<scScrolls, scPos, scTime, scSent>>
    /\ UNCHANGED scrollFixed
    /\ UNCHANGED notScroll

\* a command of the pattern raises (the handle is gone, the script fails): the
\* exception leaves _simulate_page_scanning
ScrollRaise ==
    /\ scPc \in {"new", "loop"}
    /\ scPc' = "raised"
    /\ UNCHANGED <<scScrolls, scPos, scTime, scSent>>
    /\ UNCHANGED scrollFixed
    /\ UNCHANGED notScroll

ScrollNext ==
    \/ ScrollBegin
    \/ RapidStep
    \/ MethodicalStep
    \/ NormalStep
    \/ ScrollEnd
    \/ ScrollRaise

InitScroll == SessIdle /\ SelIdle /\ FindIdle /\ PipeIdle /\ MonIdle /\ SetupIdle /\ TypeIdle /\ BezierIdle /\ InteractIdle /\ TextIdle /\ ScrollInit /\ RunIdle

SpecScroll == InitScroll /\ [][ScrollNext]_vars

\* the thread that runs the pattern is the only one and nothing it does blocks
\* for ever: a step that can be taken is taken
SpecScrollFair == SpecScroll /\ WF_vars(ScrollNext)

----------------------------------------------------------------------------
\* One run of run_advanced_automation (1129-1219): the session is built, one
\* url is visited and interacted with, and the finally clause cleans up.

\* how interact_intelligently(max_interactions=5) ends (813-838): it returns,
\* with or without elements, or one of its steps outside the per-element try
\* raises
RunInteractOutcomes == {"ok", "no_elements", "start_script", "find", "select", "end_script"}

\* how the report and the prompt of 1202-1211 end: input() returns or raises
\* EOFError
ReportOutcomes == {"ok", "eof"}

RunInit ==
    /\ rnPattern \in Patterns
    /\ rnProfile \in Profiles
    /\ rnAutomation = "None"
    /\ rnDriver = "none"
    /\ rnError = "none"
    /\ rnPc = "new"

\* automation = AdvancedWebAutomation(...) (1179-1184): __init__ runs
\* _setup_driver (596); the browser exists from 655 on; the local automation is
\* assigned only if __init__ returns
RunConstruct ==
    /\ rnPc = "new"
    /\ \E fail \in SetupFailures :
        /\ rnDriver' = IF fail = "create" THEN "none" ELSE "live"
        /\ rnAutomation' = IF fail = "none" THEN "session" ELSE "None"
        /\ rnError' = fail
        /\ rnPc' = IF fail = "none" THEN "navigate" ELSE "finally"
    /\ UNCHANGED <<rnPattern, rnProfile>>
    /\ UNCHANGED notRun

\* automation.navigate_with_intelligence(url) (1191)
RunNavigate ==
    /\ rnPc = "navigate"
    /\ \E out \in NavOutcomes :
        /\ rnError' = IF out = "ok" THEN "none" ELSE out
        /\ rnPc' = IF out = "ok" THEN "interact" ELSE "finally"
    /\ UNCHANGED <<rnPattern, rnProfile, rnAutomation, rnDriver>>
    /\ UNCHANGED notRun

\* automation.interact_intelligently(max_interactions=5) (1194)
RunInteract ==
    /\ rnPc = "interact"
    /\ \E out \in RunInteractOutcomes :
        /\ rnError' = IF out \in {"ok", "no_elements"} THEN "none" ELSE out
        /\ rnPc' = IF out \in {"ok", "no_elements"} THEN "report" ELSE "finally"
    /\ UNCHANGED <<rnPattern, rnProfile, rnAutomation, rnDriver>>
    /\ UNCHANGED notRun

\* the metrics are printed and the prompt waits for Enter (1199-1211)
RunReport ==
    /\ rnPc = "report"
    /\ \E out \in ReportOutcomes : rnError' = IF out = "ok" THEN "none" ELSE out
    /\ rnPc' = "finally"
    /\ UNCHANGED <<rnPattern, rnProfile, rnAutomation, rnDriver>>
    /\ UNCHANGED notRun

\* the except and finally clauses (1213-1219): `if automation:
\* automation.cleanup()`, and cleanup quits the driver it holds (1117-1124)
RunFinally ==
    /\ rnPc = "finally"
    /\ rnDriver' = IF rnAutomation = "session" /\ rnDriver = "live" THEN "quit"
                   ELSE rnDriver
    /\ rnPc' = "ended"
    /\ UNCHANGED <<rnPattern, rnProfile, rnAutomation, rnError>>
    /\ UNCHANGED notRun

RunNext ==
    \/ RunConstruct
    \/ RunNavigate
    \/ RunInteract
    \/ RunReport
    \/ RunFinally

InitRun == SessIdle /\ SelIdle /\ FindIdle /\ PipeIdle /\ MonIdle /\ SetupIdle /\ TypeIdle /\ BezierIdle /\ InteractIdle /\ TextIdle /\ ScrollIdle /\ RunInit

SpecRun == InitRun /\ [][RunNext]_vars

----------------------------------------------------------------------------
\* Properties of the session (specification Spec)

Handles(s) == {s[i][1] : i \in DOMAIN s}

Distinct(s) == \A i, j \in DOMAIN s : i # j => s[i] # s[j]

\* C1: in interact_intelligently an interaction is attempted on every selected
\* element in selection order, whichever driver calls fail: after the loop has
\* passed position k the attempted handles are exactly selected[1..k], the loop
\* leaves only past the last element, and no element failure escapes the call.
C1_EveryElementAttempted ==
    /\ pc # "escaped"
    /\ pc = "loop" =>
        /\ idx \in 1..(Len(selected) + 1)
        /\ attempted = [k \in 1..(idx - 1) |-> selected[k][1]]

\* a batch of two or more whose first element failed and whose last was attempted
C1_Witness ==
    /\ pc = "loop"
    /\ Len(selected) >= 2
    /\ idx = Len(selected) + 1
    /\ 1 \in failedAt
    /\ Len(attempted) = Len(selected)

\* C2: cleanup() is idempotent: once it has run, a further cleanup() sends no
\* quit command to the handle and emits no telemetry record (one quit and at
\* most one record over the session's life), and it does not raise.
C2_SecondCleanupNoOp ==
    cleanupCalls >= 1 =>
        /\ quitCalls = 1
        /\ telemetry <= 1
        /\ (lastOp.name = "cleanup" => lastResult = "ok")

\* C3: after cleanup() has released the handle, navigate_with_intelligence and
\* interact_intelligently fail with an explicit state error and send no command
\* to the released handle.
C3_ClosedOperationsFailFast ==
    /\ deadCmds = 0
    /\ (lastOp.onClosed /\ lastOp.name \in {"navigate", "interact"})
         => lastResult = "state_error"

----------------------------------------------------------------------------
\* Properties of _select_elements_by_behavior (specification SpecSelect)

SelDone == selOut.status \notin {"pending", "idle"}

\* number of entries of the input with a score above 0.6
AboveCount == Cardinality({i \in DOMAIN selScored : selScored[i][2] > 60})

\* C5: Focused returns at most maxCount entries, each of score > 0.6 and each an
\* entry of the input: exactly the first min(maxCount, k) of the k input entries
\* with score > 0.6 (a prefix of the input, which is sorted by descending score).
C5_FocusedSelection ==
    (selPattern = "focused" /\ SelDone) =>
        /\ selOut.status = "returned"
        /\ Len(selOut.sel) <= selMax
        /\ \A i \in DOMAIN selOut.sel :
            /\ selOut.sel[i][2] > 60
            /\ selOut.sel[i] \in Range(selScored)
        /\ selOut.sel = SubSeq(selScored, 1, Min(selMax, AboveCount))

\* more entries above 0.6 than the budget, and an entry of exactly 0.6
C5_Witness ==
    /\ selPattern = "focused"
    /\ SelDone
    /\ AboveCount > selMax
    /\ selMax >= 1
    /\ \E i \in DOMAIN selScored : selScored[i][2] = 60
    /\ Len(selOut.sel) = selMax

\* C6: Scanner returns exactly the first min(3, maxCount) entries of the input
\* (all of them if the input is shorter), in the same order.
C6_ScannerSelection ==
    (selPattern = "scanner" /\ SelDone) =>
        /\ selOut.status = "returned"
        /\ Len(selOut.sel) = Min(Min(3, selMax), Len(selScored))
        /\ \A i \in DOMAIN selOut.sel : selOut.sel[i] = selScored[i]

\* the cap of 3 decides: maxCount and the input are both longer than 3
C6_Witness ==
    /\ selPattern = "scanner"
    /\ SelDone
    /\ selMax > 3
    /\ Len(selScored) > 3
    /\ Len(selOut.sel) = 3

\* C7: Explorer, with h = maxCount div 2, returns the first h entries of the
\* input followed by min(h, |remainder|) distinct entries of the remainder; no
\* entry occurs twice, and the length is min(h, n) + min(h, max(n - h, 0)),
\* at most 2h <= maxCount.
C7_ExplorerSelection ==
    (selPattern = "explorer" /\ SelDone) =>
        LET h == selMax \div 2
            n == Len(selScored)
            top == Min(h, n)
            rem == IF n > h THEN n - h ELSE 0
            out == selOut.sel
        IN  /\ selOut.status = "returned"
            /\ Len(out) = top + Min(h, rem)
            /\ Len(out) <= 2 * h
            /\ 2 * h <= selMax
            /\ \A i \in 1..top : out[i] = selScored[i]
            /\ \A i \in (top + 1)..Len(out) :
                 \E j \in (h + 1)..n : out[i] = selScored[j]
            /\ Distinct(out)

\* a remainder larger than the sample, and a pick that is not the next in score order
C7_Witness ==
    /\ selPattern = "explorer"
    /\ SelDone
    /\ selMax = 3
    /\ Len(selScored) = 4
    /\ Len(selOut.sel) = 2
    /\ selOut.sel[2] = selScored[4]

\* C8: Casual and Researcher complete without raising for every scored list
\* with scores >= 0 and return min(maxCount, |scored|) distinct entries of the
\* input, also when some but not all scores are 0.
C8_DefaultSelectionCompletes ==
    (selPattern \in {"casual", "researcher"} /\ SelDone) =>
        /\ selOut.status = "returned"
        /\ Len(selOut.sel) = Min(selMax, Len(selScored))
        /\ \A i \in DOMAIN selOut.sel : selOut.sel[i] \in Range(selScored)
        /\ Distinct(selOut.sel)

----------------------------------------------------------------------------
\* Properties of find_interactive_elements (specification SpecFind)

UniqueNodes == {unique[i].node : i \in DOMAIN unique}

\* C9: a candidate that is stale at any point of its check (display/enabled
\* query, size read, viewport script) is reported not interactive and is not
\* kept; no exception leaves find_interactive_elements; every node returned by a
\* query is still checked, and a candidate whose check met no error is kept
\* exactly when it is displayed, large enough and inside the viewport.
C9_StaleIsNotInteractive ==
    findPc # "pending" =>
        /\ findPc = "done"
        /\ \A i \in DOMAIN elements :
             \E k \in DOMAIN checked : checked[k].handle.node = elements[i].node
        /\ \A k \in DOMAIN checked :
             LET c == checked[k]
             IN  /\ c.met \in Stale =>
                      (c.result = "false" /\ c.handle \notin Range(unique))
                 /\ c.met \notin (Stale \cup {"error"}) =>
                      (c.handle \in Range(unique) <=> c.met = "interactive")

\* a candidate went stale at the viewport script and a later one was kept
C9_Witness ==
    /\ findPc = "done"
    /\ \E j, k \in DOMAIN checked :
        /\ j < k
        /\ checked[j].met = "stale_viewport"
        /\ checked[k].met = "interactive"
        /\ checked[k].handle \in Range(unique)

\* C10: a page node that matches several selectors of the catalog appears at
\* most once in the result of find_interactive_elements.
C10_NodeAppearsOnce ==
    findPc = "done" =>
        \A i, j \in DOMAIN unique : unique[i].node = unique[j].node => i = j

\* the name of the node behind the entry e of pScored
ScoredNode(e) == pPage[pFound[e[1]].node]

\* the page of the scenario: one Submit button, the other node a tiny hidden link
ScenarioPage ==
    /\ Cardinality({n \in DOMAIN pPage : pPage[n] = "SubmitButton"}) = 1
    /\ \A n \in DOMAIN pPage : pPage[n] \in {"SubmitButton", "TinyLink"}
    /\ \E n \in DOMAIN pPage : pPage[n] = "TinyLink"

\* C11: on a page with one large, above-the-fold, enabled button "Submit" and one
\* tiny hidden link, find_interactive_elements returns only the button, its
\* score without the random term is at least 0.3 + 0.2 + 0.3 + 0.4 = 1.2, and a
\* Focused persona with maxCount = 5 selects exactly that one entry (the reads
\* of the button succeeding).
C11_SubmitButtonScenario ==
    (ScenarioPage /\ pPattern = "focused" /\ pMax = 5 /\ pStale = {}) =>
        /\ pPc # "raised"
        /\ pPc # "find" =>
            /\ Len(pFound) = 1
            /\ pPage[pFound[1].node] = "SubmitButton"
        /\ pPc \in {"select", "done"} =>
            /\ Len(pScored) = 1
            /\ pScored[1][1] = 1
            /\ pScored[1][2] - pRnd[1] >= 120
        /\ pPc = "done" => pSelected = pScored

C11_Witness ==
    /\ ScenarioPage /\ pPattern = "focused" /\ pMax = 5 /\ pStale = {}
    /\ pPc = "done"
    /\ Len(pSelected) = 1
    /\ ScoredNode(pSelected[1]) = "SubmitButton"

\* the score before the random term, as the five terms are stated
StatedSubScore(el) ==
    LET HasWord(w) == Contains(Lower(el.text), w)
        HasClass(w) == Contains(OrEmpty(el.cls), w)
    IN    (IF el.y < 800 THEN 30 ELSE 0)
        + (IF el.width > 100 /\ el.height > 30 THEN 20 ELSE 0)
        + (CASE el.tag = <<"b", "u", "t", "t", "o", "n">> -> 30
             [] el.tag = <<"a">> -> 25
             [] el.tag = <<"i", "n", "p", "u", "t">> -> 20
             [] OTHER -> 0)
        + (IF \/ HasWord(<<"s", "u", "b", "m", "i", "t">>)
              \/ HasWord(<<"s", "e", "a", "r", "c", "h">>)
              \/ HasWord(<<"l", "o", "g", "i", "n">>)
              \/ HasWord(<<"n", "e", "x", "t">>)
              \/ HasWord(<<"c", "o", "n", "t", "i", "n", "u", "e">>)
              \/ HasWord(<<"a", "c", "c", "e", "p", "t">>)
           THEN 40 ELSE 0)
        + (IF HasClass(<<"p", "r", "i", "m", "a", "r", "y">>) \/ HasClass(<<"m", "a", "i", "n">>)
           THEN 20 ELSE 0)

StatedSubScoreOf == [name \in PageElements |-> StatedSubScore(Describe(name))]

\* C12: the score of an element before the random term is 0.3 if y < 800, plus
\* 0.2 if width > 100 and height > 30, plus the bonus of its tag (button 0.3,
\* a 0.25, input 0.2, else 0), plus 0.4 if its lower-cased text contains a
\* priority word, plus 0.2 if its class contains 'primary' or 'main'; it depends
\* on the element alone, and the final score lies between that sub-score and the
\* sub-score plus 0.3 * curiosity_level.
C12_SubScoreFormula ==
    pPc \in {"select", "done", "raised"} =>
        \A i \in DOMAIN pScored :
            LET sub == StatedSubScoreOf[ScoredNode(pScored[i])]
            IN  /\ pScored[i][2] - pRnd[pScored[i][1]] = sub
                /\ sub <= pScored[i][2]
                /\ 100 * (pScored[i][2] - sub) <= 30 * pCur

C12_Witness ==
    /\ pPc = "select"
    /\ \E i, j \in DOMAIN pScored :
        /\ ScoredNode(pScored[i]) = "LoginLink"
        /\ pScored[i][2] = 75
        /\ ScoredNode(pScored[j]) = "NextDiv"
        /\ pScored[j][2] > 40

\* C13: the list _score_elements returns is sorted by non-increasing score, and
\* entries of equal score keep their discovery order.
C13_SortedStable ==
    pPc \in {"select", "done", "raised"} =>
        /\ Handles(pScored) = DOMAIN pFound \ pStale
        /\ Len(pScored) = Cardinality(DOMAIN pFound \ pStale)
        /\ \A i, j \in DOMAIN pScored :
            i < j =>
                /\ pScored[i][2] >= pScored[j][2]
                /\ pScored[i][2] = pScored[j][2] => pScored[i][1] < pScored[j][1]

C13_Witness ==
    /\ pPc = "select"
    /\ Len(pScored) >= 3
    /\ pScored[1][1] # 1
    /\ \E i \in DOMAIN pScored :
        /\ i + 1 \in DOMAIN pScored
        /\ pScored[i][2] = pScored[i + 1][2]

\* the entries of scored_elements for the element found at position k
EntriesFor(k) == {i \in DOMAIN pScored : pScored[i][1] = k}

\* C25: an element whose reads raise while it is scored is absent from the
\* result of _score_elements, every other element handed in appears in it
\* exactly once with its own score, and no exception leaves _score_elements:
\* the scoring step always hands over to the selection.
C25_FailedElementSkipped ==
    /\ [](pPc \in {"select", "done", "raised"} =>
            \A k \in DOMAIN pFound :
                IF k \in pStale THEN EntriesFor(k) = {}
                ELSE /\ Cardinality(EntriesFor(k)) = 1
                     /\ \A i \in EntriesFor(k) :
                            pScored[i][2] = SubScoreOf[pPage[pFound[k].node]] + pRnd[k])
    /\ [][pPc = "score" => pPc' = "select"]_vars

C25_Witness ==
    /\ pPc = "select"
    /\ pStale = {1}
    /\ Len(pFound) >= 3
    /\ Len(pScored) = Len(pFound) - 1
    /\ \E i \in DOMAIN pScored : pScored[i][1] = 3 /\ pRnd[3] > 0

\* C14: every session that is closed has emitted exactly one telemetry record,
\* whatever enable_monitoring is and however many times cleanup() was called.
C14_OneTelemetryRecord ==
    driver = "quit" => telemetry = 1

\* the action names of the monitored actions
ActionNames == {NavigateName(u) : u \in Urls} \cup {InteractName}

\* the metrics performance_metrics holds under a name
EntriesOf(name) == {e[2] : e \in {x \in mMetrics : x[1] = name}}

\* the calls of that name that completed
CompletedAt(name) == {mDone[i].at : i \in {j \in DOMAIN mDone : mDone[j].name = name}}

\* C15: with monitoring enabled, performance_metrics holds at most one entry per
\* action name, and the entry of a name is the metric of the most recently
\* completed action of that name; the entries of the other names are untouched.
C15_LatestMetricPerName ==
    mMonitoring =>
        /\ \A e \in mMetrics : e[1] \in ActionNames
        /\ \A name \in ActionNames :
            /\ Cardinality(EntriesOf(name)) <= 1
            /\ CompletedAt(name) = {} => EntriesOf(name) = {}
            /\ CompletedAt(name) # {} =>
                EntriesOf(name) = {CHOOSE t \in CompletedAt(name) :
                                      \A u \in CompletedAt(name) : u <= t}

C15_Witness ==
    /\ mMonitoring
    /\ \E a, b \in ActionNames :
        /\ a # b
        /\ CompletedAt(a) = {1, 3}
        /\ CompletedAt(b) = {2}
        /\ mMetrics = {<<a, 3>>, <<b, 2>>}

\* positions of the command c in the log of the last call
Sent(c) == {i \in DOMAIN mLog : mLog[i] = c}

\* C16: one call of navigate_with_intelligence(url) sends the page load of url
\* once and never again (exactly once when the call gets as far as the load);
\* if the load fails or readyState is not 'complete' within the wait, the error
\* reaches the caller and neither the structural analysis nor any scroll
\* command is sent.
C16_LoadOnceNoRetry ==
    mCall.op = "navigate" =>
        /\ Cardinality(Sent(<<"get", mCall.url>>)) <= 1
        /\ mCall.out \notin {"start_script", "blank_load"} =>
            Cardinality(Sent(<<"get", mCall.url>>)) = 1
        /\ mCall.out \in {"load", "wait_timeout", "wait_error"} =>
            /\ mCall.result # "ok"
            /\ Sent(<<"script", "analyze">>) = {}
            /\ Sent(<<"script", "scrollBy">>) = {}
            /\ mLog[Len(mLog)] \in {<<"get", mCall.url>>, <<"script", "readyState">>}

C16_Witness ==
    /\ mCall.op = "navigate"
    /\ mCall.out = "wait_timeout"
    /\ mCall.typed
    /\ mCall.result = "timeout_error"
    /\ Cardinality(Sent(<<"get", mCall.url>>)) = 1

\* C17: once the session is initialized, the window size in effect is
\* profile.viewport, so the viewport the telemetry reports is the actual one.
C17_WindowIsProfileViewport ==
    suPc = "ready" => suWindow = TelemetryViewport(suProfile)

\* C18: _type_like_human(element, text) clears the field, then sends exactly
\* len(text) single-character send_keys, the characters of text in order; the
\* only further commands are one optional pair (a lower-case letter, then
\* backspace), only when len(text) > 5 and only after all the characters; the
\* field holds text at the end of every call that returns.
C18_TypingSequence ==
    /\ tyPc = "returned" =>
        LET n == Len(tyText)
        IN  /\ Len(tyLog) >= n + 1
            /\ tyLog[1] = <<"clear">>
            /\ \A i \in 1..n : tyLog[i + 1] = <<"send_keys", tyText[i]>>
            /\ \/ Len(tyLog) = n + 1
               \/ /\ Len(tyLog) = n + 3
                  /\ n > 5
                  /\ tyLog[n + 2][1] = "send_keys"
                  /\ tyLog[n + 2][2] \in Range(LowerCase)
                  /\ tyLog[n + 3] = <<"send_keys", Backspace>>
            /\ tyField = tyText
    /\ tyPc = "raised" =>
        \A i \in DOMAIN tyLog :
            /\ i = 1 => tyLog[i] = <<"clear">>
            /\ (i > 1 /\ i <= Len(tyText) + 1) => tyLog[i] = <<"send_keys", tyText[i - 1]>>

C18_Witness ==
    /\ tyPc = "returned"
    /\ Len(tyText) = 6
    /\ Len(tyLog) = 9
    /\ tyLog[8] = <<"send_keys", "q">>
    /\ tyField = tyText

\* the point p of a path lies at the integer point xy
At(p, xy) == p.x[1] = xy[1] * p.x[2] /\ p.y[1] = xy[2] * p.y[2]

\* C19 as stated: for every start, end, control points and n >= 1, bezier_curve
\* returns exactly n points, the first equal to start and the last equal to end.
C19_EndPointsForEveryN ==
    (bzPc = "returned" /\ bzN >= 1) =>
        /\ Len(bzPath) = bzN
        /\ At(bzPath[1], bzStart)
        /\ At(bzPath[bzN], bzEnd)

\* C19 (amended): bezier_curve returns exactly n points; for n >= 2 the first
\* is start and the last is end; for n = 1 the one point is start.
C19_EndPointsFromTwo ==
    bzPc = "returned" =>
        /\ Len(bzPath) = bzN
        /\ bzN >= 1 => At(bzPath[1], bzStart)
        /\ bzN >= 2 => At(bzPath[bzN], bzEnd)

C19_Witness ==
    /\ bzPc = "returned"
    /\ bzN = 3
    /\ bzStart = <<0, 40>>
    /\ bzEnd = <<40, 0>>
    /\ bzControl = <<>>
    /\ ~At(bzPath[2], <<20, 20>>)
    /\ At(bzPath[3], bzEnd)

\* positions of the command c among the commands of the call
Issued(c) == {i \in DOMAIN itLog : itLog[i] = c}

\* commands of a click and of what follows one: typing, dialog handling,
\* navigation check and navigate-back
ClickCommands ==
    {i \in DOMAIN itLog :
        \/ itLog[i][1] \in {"click", "clear", "send_keys", "alert", "back"}
        \/ itLog[i] = <<"read", "current_url">>}

\* C20: the click decision is taken once, after the whole pointer path has been
\* replayed: a click is sent if and only if the draw r is below score *
\* curiosity_level (no click being sent either when a command before it
\* raises); with r at or above it the call only hovers: no click, no typing, no
\* dialog handling and no navigate-back.
C20_ClickDecision ==
    itPc = "returned" =>
        LET below == itDraws.r < itScore * itCur
            reached == itFail \notin {"scroll", "geometry", "mouse_pos", "move", "tag"}
        IN  /\ Cardinality(Issued(<<"click">>)) <= 1
            /\ Issued(<<"click">>) # {} <=> (below /\ reached)
            /\ \A i \in Issued(<<"click">>) :
                /\ Cardinality({j \in Issued(<<"move">>) : j < i}) = itDraws.n
                /\ \A j \in ClickCommands : j >= i
            /\ ~below => ClickCommands = {}

C20_Witness ==
    /\ itPc = "returned"
    /\ itFail = "none"
    /\ itScore = 60
    /\ itCur = 90
    /\ itDraws.r = 5400
    /\ itDraws.n = 2
    /\ Cardinality(Issued(<<"move">>)) = 2
    /\ itLog[Len(itLog)] = <<"read", "text">>

\* the draw of 1088 succeeds and no command of the call raises
BackWanted == itFail = "none" /\ itDraws.back

\* C21: post-click handling detects the navigation a click caused and, when the
\* URL changed and the 0.3 draw succeeds, sends navigate-back in the same
\* element interaction: a click sent, a page URL that the click changed, a
\* successful draw and no exception imply a navigate-back command after the
\* click.
C21_BackAfterUrlChange ==
    (itPc = "returned" /\ Issued(<<"click">>) # {} /\ BackWanted
     /\ itDraws.nav # "no")
        => \E i \in Issued(<<"click">>) : \E j \in Issued(<<"back">>) : i < j

\* the positions of the alert commands of a call
AlertProbes == Issued(<<"alert", "switch_to">>)

----------------------------------------------------------------------------
\* Properties of the typed content (specification SpecText)

\* a hint is in at least one of placeholder, name and id
HintAnywhere(hint) ==
    \E a \in {gtPlaceholder, gtName, gtId} : Contains(Lower(OrEmpty(a)), hint)

\* C23: for an input of kind text the content follows the hints found in any
\* of placeholder, name and id, tested in the order name, email, phone,
\* search: the first hint present in at least one of the three attributes
\* selects its generator, and "Test input <n>" is typed only when none of the
\* three attributes holds a hint.
C23_HintInAnyAttribute ==
    (gtPc = "returned" /\ TypeOrText(gtType) = "text") =>
        gtText \in (IF HintAnywhere(NameHint) THEN FullNames
                    ELSE IF HintAnywhere(EmailHint) THEN Addresses
                    ELSE IF HintAnywhere(PhoneHint) THEN PhoneNumbers
                    ELSE IF HintAnywhere(SearchHint) THEN QueryTerms
                    ELSE GenericTexts)

----------------------------------------------------------------------------
\* Properties of the scroll patterns (specification SpecScrollFair)

ScrollEnded == scPc \in {"returned", "raised"}

\* what holds of a pattern while it runs and when it has returned
ScrollBounds ==
    /\ (scPattern = "scanner" /\ scPc = "returned") => scPos >= scHeight
    /\ (scPattern = "researcher" /\ scPc = "loop" /\ scSent > 0)
            => scPos + scViewport < scHeight
    /\ (scPattern = "researcher" /\ scPc = "returned")
            => \/ scSent > 0 /\ scPos + scViewport >= scHeight
               \/ scTime * scSpeed >= scWords * 60
    /\ (scPattern \notin {"scanner", "researcher"} /\ scPc = "returned")
            => scSent \in 3..7

\* C24: every scroll pattern ends, for every page height and word count: the
\* Scanner scroll returns with the scrolled distance at or above the page
\* height read at its start; the Researcher scroll, once the offset it reads
\* plus the viewport height reaches the page height, sends no further scroll
\* command (whether or not the reading time has elapsed) and otherwise returns
\* when the reading time has elapsed; the default scroll returns after 3 to 7
\* scroll commands.
C24_ScrollsTerminate == []ScrollBounds /\ <>ScrollEnded

C24_Witness ==
    /\ scPattern = "researcher"
    /\ scPc = "returned"
    /\ scSent = 2
    /\ scPos + scViewport = scHeight
    /\ scTime * scSpeed < scWords * 60

----------------------------------------------------------------------------
\* Properties of a whole run (specification SpecRun)

\* C26: no browser handle is leaked: when run_advanced_automation has ended,
\* every browser that was started has been quit, also when the session's
\* initialization failed after the browser was started and when navigation or
\* interaction raised.
C26_NoHandleLeaked ==
    rnPc = "ended" => rnDriver # "live"

====
